---- MODULE Spec2Model ----
(***************************************************************************)
(* A model of the Zynq-7000 AMP debug engine of blackmagic:                *)
(*   src/src/target/cortexa.c          the ARMv7-A external debug driver   *)
(*   src/src/platforms/zynq_amp/crash_watchdog.c   the crash watchdog      *)
(*   src/src/platforms/zynq_amp/coredump.c         the core-file builder   *)
(*                                                                         *)
(* 32-bit words are integers.  TLC's integers are 32-bit signed, so a word *)
(* with bit 31 set is the negative integer with the same low 32 bits; a    *)
(* 64-bit VFP double is the pair                                           *)
(* <<high word, low word>>.  DBGDSCR is a record of its fields; the MOE    *)
(* field holds the value of (dbgdscr & DBGDSCR_MOE_MASK).  An instruction  *)
(* written to DBGITR is a record naming the instruction and its operand.   *)
(***************************************************************************)
EXTENDS Integers, Sequences, FiniteSets, TLC

VARIABLES
    priv,                   \* struct cortexa_priv (without the two windows)
    dbg,                    \* the debug APB register file of the slave core
    core,                   \* the slave core's registers
    mem,                    \* the slave's memory, word address -> word
    bw_list,                \* the host's breakwatch list (t->bw_list)
    target_list,            \* the target list: <<>> or the one target
    srst,                   \* the platform's SRST line
    crash_watchdog_target,  \* crash_watchdog.c's stored handle
    fate,                   \* "ok", or how the controlling process ended
    host,                   \* where the controlling task stands with the target
    last                    \* the last operation, its arguments and its result

vars == <<priv, dbg, core, mem, bw_list, target_list, srst,
          crash_watchdog_target, fate, host, last>>

NULL == "NULL"
TARGET == "target1"

(***************************************************************************)
(* Bounds of the model.                                                    *)
(***************************************************************************)
MaxBw == 2          \* records the host keeps in its breakwatch list
MaxRun == 2         \* instructions the slave executes after a restart
MaxBrps == 1        \* largest DBGDIDR.BRPs field drawn (breakpoints - 1)
MaxWrps == 1        \* largest DBGDIDR.WRPs field drawn (watchpoints - 1)
MaxPh == 10         \* core_add_ph calls made on a builder before core_dump
MaxNotes == 2       \* core_note_add calls made on a builder

(***************************************************************************)
(* Program constants of cortexa.c.                                         *)
(***************************************************************************)
DBGDIDR == 0
DBGVCR == 7
DBGVCR_R == 1
DBGVCR_SU == 2
DBGVCR_SP == 8
DBGVCR_SD == 16
DBGDTRRX == 32
DBGITR == 33
DBGDSCR == 34
DBGDTRTX == 35
DBGDRCR == 36
DBGDRCR_CSE == 4
DBGDRCR_RRQ == 2
DBGDRCR_HRQ == 1
DBGDSCR_EXTDCCMODE_STALL == 1
DBGDSCR_EXTDCCMODE_FAST == 2
DBGDSCR_MOE_HALT_REQ == 0
DBGDSCR_MOE_WATCH_ASYNC == 8
DBGDSCR_MOE_WATCH_SYNC == 40
DBGBCR_INST_MISMATCH == 4194304
DBGBCR_BAS_ANY == 480
DBGBCR_BAS_LOW_HW == 96
DBGBCR_BAS_HIGH_HW == 384
DBGBCR_EN == 1
DBGLAR == 1004
DBGLAR_KEY == -978530731    \* 0xC5ACCE55 as a 32-bit two's-complement integer
DBGWCR_LSC_LOAD == 8
DBGWCR_LSC_STORE == 16
DBGWCR_LSC_ANY == 24
DBGWCR_BAS_BYTE == 32
DBGWCR_BAS_HALFWORD == 96
DBGWCR_BAS_WORD == 480
DBGWCR_PAC_ANY == 6
DBGWCR_EN == 1
CPSR_THUMB == 32
CACHE_LINE_LENGTH == 32

DBGBVR(i) == 64 + i
DBGBCR(i) == 80 + i
DBGWVR(i) == 96 + i
DBGWCR(i) == 112 + i

(***************************************************************************)
(* C's bit operators on non-negative words.                                *)
(***************************************************************************)
RECURSIVE BitAnd(_, _)
BitAnd(x, y) ==
    IF x = 0 \/ y = 0 THEN 0
    ELSE (x % 2) * (y % 2) + 2 * BitAnd(x \div 2, y \div 2)

BitOr(x, y) == x + y - BitAnd(x, y)

\* x & ~m
BitClear(x, m) == x - BitAnd(x, m)

\* x << n and x >> n
Shl(x, n) == x * (2 ^ n)
Shr(x, n) == x \div (2 ^ n)

\* mask & (1 << i), as a truth value
MaskBit(mask, i) == BitAnd(mask, Shl(1, i)) # 0

(***************************************************************************)
(* The slave core and its debug logic, as the driver's comments and        *)
(* DDI0406C describe them.                                                 *)
(*                                                                         *)
(* core.r[15] is the address of the next instruction the core executes.    *)
(* In debug state "mov r0, pc" reads that address plus 8 (plus 4 when      *)
(* CPSR.T is set): cortexa.c:547 takes the offset off again.               *)
(***************************************************************************)
FW_ENTRY == 452984832       \* 0x1b000000, the word at 0x8 of the trampoline
FW_LAST == 452984840        \* the firmware's main loop ends here
ABORT_VECTOR == 16          \* the data-abort vector
RESET_CPSR == 467           \* 0x1d3: SVC mode, ARM state, IRQ and FIQ masked
VCATCH_MOE == 20            \* MOE = 0b0101 (vector catch) << 2
BKPT_MOE == 4               \* MOE = 0b0001 (breakpoint) << 2
PAR_ATTR == 74              \* attribute bits a successful translation leaves in PAR[11:1]
PAR_FAULT == 11             \* PAR of a faulted translation: F = 1, FS = 0b00101
PAGE == 4096
MEM_BASE == 268435456       \* 0x10000000, the data window the model maps
MemWords == 3               \* words of the data window
WDT_DISABLE == -118487500   \* 0xf8f00634, the SoC watchdog's disable register

Mapped(a) == (a >= MEM_BASE /\ a < MEM_BASE + 4 * MemWords) \/ a = WDT_DISABLE

Thumb(c) == BitAnd(c.cpsr, CPSR_THUMB) # 0

\* Pages whose translation faults: the second page above the data window.
MmuFaults(va) == (va \div PAGE) = (MEM_BASE \div PAGE) + 2

\* ATS1CPR: PAR for a privileged read of va.  The firmware runs on a flat
\* mapping; the page of the data window is mapped one page up.
Translate(va) ==
    IF MmuFaults(va) THEN PAR_FAULT
    ELSE IF va \div PAGE = MEM_BASE \div PAGE THEN ((va \div PAGE) + 1) * PAGE + PAR_ATTR
    ELSE (va \div PAGE) * PAGE + PAR_ATTR

\* Byte k (0 = least significant) of a word, and the word with byte k replaced.
ByteOf(w, k) == (w \div (256 ^ k)) % 256
WithByte(w, k, b) == w - ByteOf(w, k) * (256 ^ k) + b * (256 ^ k)

Ins(op, n) == [op |-> op, n |-> n]

\* One instruction executed by the halted core from DBGITR.
Exec(m, i) ==
    LET c == m.core
    IN  CASE i.op = "mcr_dtrtx" -> [m EXCEPT !.dbg.dtrtx = c.r[i.n]]
          [] i.op = "mrc_dtrrx" -> [m EXCEPT !.core.r[i.n] = m.dbg.dtrrx]
          [] i.op = "mov_r0_pc" ->
                [m EXCEPT !.core.r[0] = c.r[15] + (IF Thumb(c) THEN 4 ELSE 8)]
          [] i.op = "mov_pc_r0" -> [m EXCEPT !.core.r[15] = c.r[0]]
          [] i.op = "mrs_r0_cpsr" -> [m EXCEPT !.core.r[0] = c.cpsr]
          [] i.op = "msr_cpsr_r0" -> [m EXCEPT !.core.cpsr = c.r[0]]
          [] i.op = "vmrs_r0_fpscr" -> [m EXCEPT !.core.r[0] = c.fpscr]
          [] i.op = "vmsr_fpscr_r0" -> [m EXCEPT !.core.fpscr = c.r[0]]
          [] i.op = "vmov_r0_r1_d" ->
                [m EXCEPT !.core.r[0] = c.d[i.n][2], !.core.r[1] = c.d[i.n][1]]
          [] i.op = "vmov_d_r0_r1" ->
                [m EXCEPT !.core.d[i.n] = <<c.r[1], c.r[0]>>]
          [] i.op = "mcr_ats1cpr" ->
                [m EXCEPT !.core.par = Translate(c.r[0]),
                          !.dbg.fault_ev = @ \/ MmuFaults(c.r[0])]
          [] i.op = "mrc_par" -> [m EXCEPT !.core.r[0] = c.par]
          [] i.op = "ldc" ->
                IF Mapped(c.r[0])
                THEN [m EXCEPT !.dbg.dtrtx = m.mem[c.r[0]],
                               !.core.r[0] = c.r[0] + 4]
                ELSE [m EXCEPT !.dbg.dscr.SDABORT_L = TRUE, !.dbg.fault_ev = TRUE]
          [] i.op = "stc" ->
                IF Mapped(c.r[0])
                THEN [m EXCEPT !.mem[c.r[0]] = m.dbg.dtrrx,
                               !.core.r[0] = c.r[0] + 4]
                ELSE [m EXCEPT !.dbg.dscr.SDABORT_L = TRUE, !.dbg.fault_ev = TRUE]
          [] i.op = "strb" ->
                LET a == c.r[13]
                    w == a - (a % 4)
                IN  IF Mapped(w)
                    THEN [m EXCEPT !.mem[w] = WithByte(m.mem[w], a % 4, c.r[0] % 256),
                                   !.core.r[13] = a + 1]
                    ELSE [m EXCEPT !.dbg.dscr.SDABORT_L = TRUE, !.dbg.fault_ev = TRUE]
          [] OTHER -> m       \* cache maintenance: no register changes

\* The core takes an instruction from DBGITR only in debug state with ITREN
\* set, and never while the sticky abort flag is set.  dbg.itr_unseen records
\* an instruction issued while dbg.halt_seen was clear: since the last
\* restart request or reset of the core no DBGDSCR write has set ITREN on the
\* halted core.
Issue(m, i) ==
    IF m.dbg.dscr.HALTED /\ m.dbg.dscr.ITREN /\ ~m.dbg.dscr.SDABORT_L
    THEN [Exec(m, i) EXCEPT !.dbg.dscr.INSTRCOMPL = TRUE,
                            !.dbg.itr_unseen = @ \/ ~m.dbg.halt_seen]
    ELSE [m EXCEPT !.dbg.itr_lost = TRUE, !.dbg.itr_unseen = @ \/ ~m.dbg.halt_seen]

Fast(m) == m.dbg.dscr.EXTDCCMODE = DBGDSCR_EXTDCCMODE_FAST

\* A write to DBGDRCR: clear sticky, restart request, halt request.
WriteDRCR(m, val) ==
    LET m0 == IF BitAnd(val, DBGDRCR_RRQ) # 0
              THEN [m EXCEPT !.dbg.halt_seen = FALSE] ELSE m
        m1 == IF BitAnd(val, DBGDRCR_CSE) # 0
              THEN [m0 EXCEPT !.dbg.dscr.SDABORT_L = FALSE] ELSE m0
        m2 == IF BitAnd(val, DBGDRCR_RRQ) # 0 /\ m1.dbg.dscr.HALTED
                 /\ ~m1.dbg.dscr.ITREN /\ m1.dbg.restart_ok
              THEN [m1 EXCEPT !.dbg.dscr.HALTED = FALSE,
                              !.dbg.dscr.RESTARTED = TRUE,
                              !.core.executed = 0]
              ELSE m1
    IN  IF BitAnd(val, DBGDRCR_HRQ) # 0 /\ ~m2.dbg.dscr.HALTED
        THEN [m2 EXCEPT !.dbg.hrq = TRUE] ELSE m2

\* priv->dbg[reg] = val.  The debug unit remembers the accesses made while the
\* DCC is in fast mode: dbg.fast_itr counts the writes of DBGITR since the
\* mode was entered (2 stands for "two or more"), dbg.fast_other is set by a
\* write of any register other than DBGITR, DBGDTRRX and DBGDSCR and by a read
\* of any register other than DBGDTRTX.
apb_write(m, reg, val) ==
    CASE reg = DBGITR \/ reg = DBGDTRRX ->
            \* a write of DBGITR issues it in stall mode, a write of DBGDTRRX
            \* issues the instruction DBGITR holds in fast mode
            IF Fast(m) = (reg = DBGDTRRX)
            THEN Issue([m EXCEPT !.dbg.itr = IF reg = DBGITR THEN val ELSE @,
                                 !.dbg.dtrrx = IF reg = DBGDTRRX THEN val ELSE @],
                       IF reg = DBGITR THEN val ELSE m.dbg.itr)
            ELSE [m EXCEPT !.dbg.itr = IF reg = DBGITR THEN val ELSE @,
                           !.dbg.dtrrx = IF reg = DBGDTRRX THEN val ELSE @,
                           !.dbg.fast_itr = IF reg = DBGITR THEN IF @ = 0 THEN 1 ELSE 2
                                            ELSE @]
      [] reg = DBGDSCR ->
            [m EXCEPT !.dbg.dscr.INTDIS = val.INTDIS,
                      !.dbg.dscr.ITREN = val.ITREN,
                      !.dbg.dscr.HDBGEN = val.HDBGEN,
                      !.dbg.dscr.EXTDCCMODE = val.EXTDCCMODE,
                      !.dbg.halt_seen = @ \/ (val.ITREN /\ m.dbg.dscr.HALTED),
                      !.dbg.fast_itr =
                          IF ~Fast(m) /\ val.EXTDCCMODE = DBGDSCR_EXTDCCMODE_FAST
                          THEN 0 ELSE @,
                      !.dbg.fast_other =
                          IF ~Fast(m) /\ val.EXTDCCMODE = DBGDSCR_EXTDCCMODE_FAST
                          THEN FALSE ELSE @]
      [] reg = DBGDRCR -> WriteDRCR([m EXCEPT !.dbg.fast_other = @ \/ Fast(m)], val)
      [] reg = DBGVCR -> [m EXCEPT !.dbg.vcr = val, !.dbg.fast_other = @ \/ Fast(m)]
      [] reg = DBGLAR -> [m EXCEPT !.dbg.lar = val, !.dbg.fast_other = @ \/ Fast(m)]
      [] reg - 64 \in DOMAIN m.dbg.bvr ->
            [m EXCEPT !.dbg.bvr[reg - 64] = val, !.dbg.fast_other = @ \/ Fast(m)]
      [] reg - 80 \in DOMAIN m.dbg.bcr ->
            [m EXCEPT !.dbg.bcr[reg - 80] = val, !.dbg.fast_other = @ \/ Fast(m)]
      [] reg - 96 \in DOMAIN m.dbg.wvr ->
            [m EXCEPT !.dbg.wvr[reg - 96] = val, !.dbg.fast_other = @ \/ Fast(m)]
      [] reg - 112 \in DOMAIN m.dbg.wcr ->
            [m EXCEPT !.dbg.wcr[reg - 112] = val, !.dbg.fast_other = @ \/ Fast(m)]
      [] OTHER -> [m EXCEPT !.dbg.fast_other = @ \/ Fast(m)]

\* The value priv->dbg[reg] reads ...
apb_read(m, reg) ==
    CASE reg = DBGDSCR -> m.dbg.dscr
      [] reg = DBGDTRTX -> m.dbg.dtrtx
      [] reg = DBGVCR -> m.dbg.vcr
      [] reg = DBGDIDR -> m.dbg.didr
      [] OTHER -> 0

\* ... and what the read does: in fast mode a read of DBGDTRTX makes the core
\* execute the instruction held in DBGITR again.
apb_read_effect(m, reg) ==
    IF Fast(m)
    THEN IF reg = DBGDTRTX THEN Issue(m, m.dbg.itr)
         ELSE [m EXCEPT !.dbg.fast_other = TRUE]
    ELSE m

(***************************************************************************)
(* cortexa.c.  Every function is an operator on the machine m, the record  *)
(* [priv, dbg, core, mem, bw_list]; a function that returns a value gives  *)
(* the record [m |-> machine after the call, v |-> value].                 *)
(***************************************************************************)
Ret(m, v) == [m |-> m, v |-> v]

\* apb_read(t, DBGDTRTX): the value read and the machine after the read.
ReadDTRTX(m) == Ret(apb_read_effect(m, DBGDTRTX), apb_read(m, DBGDTRTX))

read_gpreg(m, regno) ==
    ReadDTRTX(apb_write(m, DBGITR, Ins("mcr_dtrtx", regno % 16)))

write_gpreg(m, regno, val) ==
    apb_write(apb_write(m, DBGDTRRX, val), DBGITR, Ins("mrc_dtrrx", regno % 16))

\* A faulty va_to_pa: a translation that succeeds clears the latch.
par_to_pa_clears(par, va) ==
    Ret([par.m EXCEPT !.priv.mmu_fault = (par.v % 2 = 1)],
        BitOr(BitClear(par.v, 4095), BitAnd(va, 4095)))

\* Lines 235-243 of va_to_pa: par is what read_gpreg(t, 0) returned.
ParToPa(par, va) ==
    Ret(IF par.v % 2 = 1 THEN [par.m EXCEPT !.priv.mmu_fault = TRUE] ELSE par.m,
        BitOr(BitClear(par.v, 4095), BitAnd(va, 4095)))

va_to_pa(m, va) ==
    ParToPa(read_gpreg(apb_write(apb_write(write_gpreg(m, 0, va),
                                           DBGITR, Ins("mcr_ats1cpr", 0)),
                                 DBGITR, Ins("mrc_par", 0)),
                       0),
            va)

\* One pass of cortexa_cache_clean's loop.
CleanLine(m, cl) == apb_write(write_gpreg(m, 0, cl), DBGITR, Ins("mcr_dccmvac", 0))

\* The loop writes the same two registers on every pass, so the machine after
\* it is the machine after its first and its last pass.
cortexa_cache_clean(m, src, len) ==
    LET first == src - (src % CACHE_LINE_LENGTH)
        lastcl == ((src + (len - 1)) \div CACHE_LINE_LENGTH) * CACHE_LINE_LENGTH
    IN  IF len = 0 THEN m ELSE CleanLine(CleanLine(m, first), lastcl)

\* The word whose bytes, least significant first, are b[1..4].  A word with
\* bit 31 set is the negative integer with the same low 32 bits.
WordOf(b) ==
    b[1] + 256 * b[2] + 65536 * b[3]
        + 16777216 * (IF b[4] >= 128 THEN b[4] - 256 ELSE b[4])

BytesOf(w) == [k \in 1..4 |-> ByteOf(w, k - 1)]

RECURSIVE ReadWords(_, _, _)
ReadWords(m, n, acc) ==
    IF n = 0 \/ m.fate # "ok" THEN Ret(m, acc)
    ELSE ReadWords(apb_read_effect(m, DBGDTRTX), n - 1,
                   Append(acc, apb_read(m, DBGDTRTX)))

\* The bytes of a uint32_t array, in memory order.
RECURSIVE Flatten(_)
Flatten(ws) == IF ws = <<>> THEN <<>> ELSE BytesOf(Head(ws)) \o Flatten(Tail(ws))

\* "Memory access aborted, flag a fault".
FlagAbort(m) == [apb_write(m, DBGDRCR, DBGDRCR_CSE) EXCEPT !.priv.mmu_fault = TRUE]

\* Lines 285-291.
ReadAbortCheck(m) ==
    IF apb_read(m, DBGDSCR).SDABORT_L THEN FlagAbort(m)
    ELSE apb_read_effect(m, DBGDTRTX)

\* A faulty end of cortexa_slow_mem_read: the DCC is left in fast mode.
slow_read_end_stays_fast(rd, dbgdscr, src, len) ==
    Ret(ReadAbortCheck(rd.m),
        SubSeq(Flatten(rd.v), (src % 4) + 1, (src % 4) + len))

\* Lines 279-291: rd is what the loop of line 276 read, dbgdscr the value
\* line 265 read.
SlowReadEnd(rd, dbgdscr, src, len) ==
    Ret(ReadAbortCheck(apb_write(rd.m, DBGDSCR,
                                 [dbgdscr EXCEPT !.EXTDCCMODE = DBGDSCR_EXTDCCMODE_STALL])),
        SubSeq(Flatten(rd.v), (src % 4) + 1, (src % 4) + len))

\* Lines 265-267 and 328-330: the DCC goes to fast mode.
FastMode(m) ==
    apb_write(m, DBGDSCR, [apb_read(m, DBGDSCR) EXCEPT !.EXTDCCMODE = DBGDSCR_EXTDCCMODE_FAST])

\* A faulty cortexa_slow_mem_read: the word the first read of DBGDTRTX gives
\* is kept.
slow_read_keeps_first(m, src, len) ==
    SlowReadEnd(ReadWords(apb_write(FastMode(m), DBGITR, Ins("ldc", 0)),
                          (len + (src % 4) + 3) \div 4, <<>>),
                apb_read(m, DBGDSCR), src, len)

\* Lines 264-291: m is the machine after line 262.
SlowReadFast(m, src, len) ==
    SlowReadEnd(ReadWords(apb_read_effect(apb_write(FastMode(m), DBGITR, Ins("ldc", 0)),
                                          DBGDTRTX),
                          (len + (src % 4) + 3) \div 4, <<>>),
                apb_read(m, DBGDSCR), src, len)

cortexa_slow_mem_read(m, src, len) ==
    SlowReadFast(write_gpreg(m, 0, src - (src % 4)), src, len)

\* The while loop of cortexa_slow_mem_write_bytes.
RECURSIVE WriteBytesLoop(_, _)
\* A faulty loop: it flags the abort and goes on with the next byte.
write_bytes_next_goes_on(m, src) ==
    IF apb_read(m, DBGDSCR).SDABORT_L THEN WriteBytesLoop(FlagAbort(m), Tail(src))
    ELSE WriteBytesLoop(m, Tail(src))

\* Lines 304-309: m is the machine after the strb of line 303.
WriteBytesNext(m, src) ==
    IF apb_read(m, DBGDSCR).SDABORT_L THEN FlagAbort(m)
    ELSE WriteBytesLoop(m, Tail(src))

WriteBytesLoop(m, src) ==
    IF src = <<>> \/ m.fate # "ok" THEN m
    ELSE WriteBytesNext(apb_write(write_gpreg(m, 0, Head(src)), DBGITR, Ins("strb", 0)),
                        src)

cortexa_slow_mem_write_bytes(m, dest, src) ==
    WriteBytesLoop(write_gpreg(m, 13, dest), src)

RECURSIVE WriteWords(_, _)
WriteWords(m, src) ==
    IF src = <<>> \/ m.fate # "ok" THEN m
    ELSE WriteWords(apb_write(m, DBGDTRRX, WordOf(SubSeq(src, 1, 4))),
                    SubSeq(src, 5, Len(src)))

\* Lines 341-345.
WriteAbortCheck(m) == IF apb_read(m, DBGDSCR).SDABORT_L THEN FlagAbort(m) ELSE m

\* Lines 327-345: m is the machine after line 324.
SlowWriteFast(m, src) ==
    WriteAbortCheck(apb_write(WriteWords(apb_write(FastMode(m), DBGITR, Ins("stc", 0)), src),
                              DBGDSCR,
                              [apb_read(m, DBGDSCR) EXCEPT
                                    !.EXTDCCMODE = DBGDSCR_EXTDCCMODE_STALL]))

\* src is the byte sequence of length len the caller passes.
cortexa_slow_mem_write(m, dest, src) ==
    IF Len(src) = 0 THEN m
    ELSE IF dest % 4 # 0 \/ Len(src) % 4 # 0
    THEN cortexa_slow_mem_write_bytes(m, dest, src)
    ELSE SlowWriteFast(write_gpreg(m, 0, dest), src)

\* A faulty cortexa_check_error: it reports the latch and leaves it set.
check_error_peek(m) == Ret(m, m.priv.mmu_fault)

\* dbg.fault_ev records that a translation or a memory access of the core has
\* faulted since the last call of cortexa_check_error.
cortexa_check_error(m) ==
    Ret([m EXCEPT !.priv.mmu_fault = FALSE, !.dbg.fault_ev = FALSE], m.priv.mmu_fault)

\* priv->reg_cache.r[i] = g, g being what read_gpreg returned.
CacheGpr(g, i) == [g.m EXCEPT !.priv.reg_cache.r[i] = g.v]
CacheCpsr(g) == [g.m EXCEPT !.priv.reg_cache.cpsr = g.v]
CacheFpscr(g) == [g.m EXCEPT !.priv.reg_cache.fpscr = g.v]

RECURSIVE ReadGprs(_, _)
ReadGprs(m, i) ==
    IF i = 15 \/ m.fate # "ok" THEN m
    ELSE ReadGprs(CacheGpr(read_gpreg(m, i), i), i + 1)

\* Line 545: the operands of | are read left to right, r1 before r0.
CacheDreg(lo, hi, i) == [lo.m EXCEPT !.priv.reg_cache.d[i] = <<hi, lo.v>>]
ReadDregLo(hi, i) == CacheDreg(read_gpreg(hi.m, 0), hi.v, i)

RECURSIVE ReadDregs(_, _)
ReadDregs(m, i) ==
    IF i = 16 \/ m.fate # "ok" THEN m
    ELSE ReadDregs(ReadDregLo(read_gpreg(apb_write(m, DBGITR, Ins("vmov_r0_r1_d", i)), 1),
                              i),
                   i + 1)

\* A faulty PcOffset: the ARM-state offset whatever CPSR.T says.
PcOffsetArm(cpsr) == 8

\* The offset line 547 takes off the PC read in debug state.
PcOffset(cpsr) == IF BitAnd(cpsr, CPSR_THUMB) # 0 THEN 4 ELSE 8

\* Line 547.
AdjustPc(m) == [m EXCEPT !.priv.reg_cache.r[15] = @ - PcOffset(m.priv.reg_cache.cpsr)]

\* Lines 533-534, 536-537 and 539-540.
ReadPc(m) == CacheGpr(read_gpreg(apb_write(m, DBGITR, Ins("mov_r0_pc", 0)), 0), 15)
ReadCpsr(m) == CacheCpsr(read_gpreg(apb_write(m, DBGITR, Ins("mrs_r0_cpsr", 0)), 0))
ReadFpscr(m) == CacheFpscr(read_gpreg(apb_write(m, DBGITR, Ins("vmrs_r0_fpscr", 0)), 0))

cortexa_regs_read_internal(m) ==
    AdjustPc(ReadDregs(ReadFpscr(ReadCpsr(ReadPc(ReadGprs(m, 0)))), 0))

RECURSIVE WriteDregs(_, _)
WriteDregs(m, i) ==
    IF i = 16 \/ m.fate # "ok" THEN m
    ELSE WriteDregs(apb_write(write_gpreg(write_gpreg(m, 1, m.priv.reg_cache.d[i][1]),
                                          0, m.priv.reg_cache.d[i][2]),
                              DBGITR, Ins("vmov_d_r0_r1", i)),
                    i + 1)

RECURSIVE WriteGprs(_, _)
WriteGprs(m, i) ==
    IF i = 15 \/ m.fate # "ok" THEN m
    ELSE WriteGprs(write_gpreg(m, i, m.priv.reg_cache.r[i]), i + 1)

\* Lines 560-561, 563-564 and 566-567.
WriteFpscr(m) ==
    apb_write(write_gpreg(m, 0, m.priv.reg_cache.fpscr), DBGITR, Ins("vmsr_fpscr_r0", 0))
WriteCpsr(m) ==
    apb_write(write_gpreg(m, 0, m.priv.reg_cache.cpsr), DBGITR, Ins("msr_cpsr_r0", 0))
WritePc(m) ==
    apb_write(write_gpreg(m, 0, m.priv.reg_cache.r[15]), DBGITR, Ins("mov_pc_r0", 0))

cortexa_regs_write_internal(m) ==
    WriteGprs(WritePc(WriteCpsr(WriteFpscr(WriteDregs(m, 0)))), 0)

\* memcpy of the cache to and from the caller's buffer
cortexa_regs_read(m) == m.priv.reg_cache
cortexa_regs_write(m, data) == [m EXCEPT !.priv.reg_cache = data]

(***************************************************************************)
(* Breakpoints and watchpoints.  A breakwatch record is                    *)
(* [type, addr, size, reserved]; reserved is bw->reserved[0].              *)
(***************************************************************************)
\* A faulty bp_bas: every byte lane of the word, whatever the length.
bp_bas_any(addr, len) == DBGBCR_BAS_ANY

bp_bas(addr, len) ==
    IF len = 4 THEN DBGBCR_BAS_ANY
    ELSE IF BitAnd(addr, 2) # 0 THEN DBGBCR_BAS_HIGH_HW
    ELSE DBGBCR_BAS_LOW_HW

\* A faulty FirstFree: the highest free slot instead of the lowest.
HighestFree(mask, max, i) ==
    IF \A j \in i..(max - 1) : MaskBit(mask, j) THEN max
    ELSE CHOOSE j \in i..(max - 1) :
            ~MaskBit(mask, j) /\ \A k \in (j + 1)..(max - 1) : MaskBit(mask, k)

\* The first i, counting up from 0, whose mask bit is clear; max when none is.
RECURSIVE FirstFree(_, _, _)
FirstFree(mask, max, i) ==
    IF i = max \/ ~MaskBit(mask, i) THEN i ELSE FirstFree(mask, max, i + 1)

WatchTypes == {"WATCH_WRITE", "WATCH_READ", "WATCH_ACCESS"}

\* A faulty set: the comparator gets the virtual address.
set_hard_regs_va(pa, bw, i) ==
    [m |-> [apb_write(apb_write(pa.m, DBGBVR(i), BitClear(bw.addr, 3)), DBGBCR(i),
                      BitOr(bp_bas(bw.addr, bw.size), DBGBCR_EN))
                EXCEPT !.priv.bcr0 = IF i = 0 THEN BitOr(bp_bas(bw.addr, bw.size), DBGBCR_EN)
                                     ELSE @,
                       !.priv.bvr0 = IF i = 0 THEN BitClear(bw.addr, 3) ELSE @],
     v |-> 0, bw |-> [bw EXCEPT !.reserved = i]]

\* cases TARGET_BREAK_SOFT (its body is commented out, so it falls through)
\* and TARGET_BREAK_HARD
\* Lines 800-808: pa is what va_to_pa returned at line 799.
SetHardRegs(pa, bw, i) ==
    LET addr == pa.v
        bcr == BitOr(bp_bas(addr, bw.size), DBGBCR_EN)
    IN  [m |-> [apb_write(apb_write(pa.m, DBGBVR(i), BitClear(addr, 3)), DBGBCR(i), bcr)
                    EXCEPT !.priv.bcr0 = IF i = 0 THEN bcr ELSE @,
                           !.priv.bvr0 = IF i = 0 THEN BitClear(addr, 3) ELSE @],
         v |-> 0, bw |-> [bw EXCEPT !.reserved = i]]

\* A faulty SetHard: the size is not tested.
set_hard_any_size(m, bw) ==
    IF FirstFree(m.priv.hw_breakpoint_mask, m.priv.hw_breakpoint_max, 0)
            = m.priv.hw_breakpoint_max
    THEN [m |-> m, v |-> -1, bw |-> bw]
    ELSE SetHardRegs(va_to_pa([m EXCEPT !.priv.hw_breakpoint_mask =
                                            BitOr(@, Shl(1, FirstFree(@, m.priv.hw_breakpoint_max, 0)))],
                              bw.addr),
                     bw, FirstFree(m.priv.hw_breakpoint_mask, m.priv.hw_breakpoint_max, 0))

SetHard(m, bw) ==
    LET i == FirstFree(m.priv.hw_breakpoint_mask, m.priv.hw_breakpoint_max, 0)
    IN  IF bw.size # 4 /\ bw.size # 2 THEN [m |-> m, v |-> -1, bw |-> bw]
        ELSE IF i = m.priv.hw_breakpoint_max THEN [m |-> m, v |-> -1, bw |-> bw]
        ELSE SetHardRegs(va_to_pa([m EXCEPT !.priv.hw_breakpoint_mask = BitOr(@, Shl(1, i))],
                                  bw.addr),
                         bw, i)

WatchBas(size) ==
    CASE size = 1 -> DBGWCR_BAS_BYTE
      [] size = 2 -> DBGWCR_BAS_HALFWORD
      [] size = 4 -> DBGWCR_BAS_WORD
      [] OTHER -> 0

\* A faulty WatchLsc: every kind watches loads and stores.
watch_lsc_any(type) == DBGWCR_LSC_ANY

WatchLsc(type) ==
    CASE type = "WATCH_WRITE" -> DBGWCR_LSC_STORE
      [] type = "WATCH_READ" -> DBGWCR_LSC_LOAD
      [] type = "WATCH_ACCESS" -> DBGWCR_LSC_ANY

\* cases TARGET_WATCH_WRITE, TARGET_WATCH_READ, TARGET_WATCH_ACCESS
SetWatch(m, bw) ==
    LET i == FirstFree(m.priv.hw_watchpoint_mask, m.priv.hw_watchpoint_max, 0)
    IN  IF i = m.priv.hw_watchpoint_max THEN [m |-> m, v |-> -1, bw |-> bw]
        ELSE LET m1 == [m EXCEPT !.priv.hw_watchpoint_mask = BitOr(@, Shl(1, i))]
                 bw1 == [bw EXCEPT !.reserved = i]
                 wcr == BitOr(BitOr(BitOr(DBGWCR_PAC_ANY, DBGWCR_EN),
                                    Shl(WatchBas(bw.size), BitAnd(bw.addr, 3))),
                              WatchLsc(bw.type))
             IN  IF bw.size \notin {1, 2, 4} THEN [m |-> m1, v |-> -1, bw |-> bw1]
                 ELSE [m |-> apb_write(apb_write(m1, DBGWCR(i), wcr),
                                       DBGWVR(i), BitClear(bw.addr, 3)),
                       v |-> 0, bw |-> bw1]

cortexa_breakwatch_set(m, bw) ==
    CASE bw.type \in {"BREAK_SOFT", "BREAK_HARD"} -> SetHard(m, bw)
      [] bw.type \in WatchTypes -> SetWatch(m, bw)
      [] OTHER -> [m |-> m, v |-> 1, bw |-> bw]

\* A faulty cortexa_breakwatch_clear: it frees the slot and leaves the
\* comparator enabled.
clear_mask_only(m, bw) ==
    CASE bw.type \in {"BREAK_SOFT", "BREAK_HARD"} ->
            Ret([m EXCEPT !.priv.hw_breakpoint_mask = BitClear(@, Shl(1, bw.reserved))], 0)
      [] bw.type \in WatchTypes ->
            Ret([m EXCEPT !.priv.hw_watchpoint_mask = BitClear(@, Shl(1, bw.reserved))], 0)
      [] OTHER -> Ret(m, 1)

cortexa_breakwatch_clear(m, bw) ==
    LET i == bw.reserved
    IN  CASE bw.type \in {"BREAK_SOFT", "BREAK_HARD"} ->
                Ret([apb_write([m EXCEPT !.priv.hw_breakpoint_mask = BitClear(@, Shl(1, i))],
                               DBGBCR(i), 0)
                        EXCEPT !.priv.bcr0 = IF i = 0 THEN 0 ELSE @], 0)
          [] bw.type \in WatchTypes ->
                Ret(apb_write([m EXCEPT !.priv.hw_watchpoint_mask = BitClear(@, Shl(1, i))],
                              DBGWCR(i), 0), 0)
          [] OTHER -> Ret(m, 1)

(***************************************************************************)
(* The slave core when it runs.                                            *)
(*                                                                         *)
(* The reset vector holds Linux's boot trampoline (cortexa.c:618-626):     *)
(*   0x0: ldr r0, [pc, #0]    0x4: mov pc, r0    0x8: the jump address     *)
(* The firmware is a loop from FW_ENTRY to FW_LAST whose instructions the  *)
(* environment chooses: "seq" (no branch; 4 bytes, or 2 in Thumb state),   *)
(* "seq32" (no branch; 4 bytes in either state), "b" (branch to FW_ENTRY), *)
(* "b_self" (branch to itself) and "dabort" (a load that aborts).  The     *)
(* data-abort vector holds a branch to itself.                             *)
(***************************************************************************)
Kinds == {"seq", "seq32", "b", "b_self", "dabort"}

\* The instruction the core finds at pc when the environment offers kind.
InstrAt(pc, kind) ==
    CASE pc = 0 -> "ldr_r0_pc"
      [] pc = 4 -> "mov_pc_r0"
      [] pc = ABORT_VECTOR -> "b_self"
      [] pc >= FW_LAST -> "b"
      [] OTHER -> kind

ExecInstr(m, kind) ==
    LET c == m.core
        pc == c.r[15]
        ins == InstrAt(pc, kind)
    IN  CASE ins = "ldr_r0_pc" -> [m EXCEPT !.core.r[0] = FW_ENTRY, !.core.r[15] = pc + 4]
          [] ins = "mov_pc_r0" -> [m EXCEPT !.core.r[15] = c.r[0]]
          [] ins = "seq" -> [m EXCEPT !.core.r[15] = pc + (IF Thumb(c) THEN 2 ELSE 4)]
          [] ins = "seq32" -> [m EXCEPT !.core.r[15] = pc + 4]
          [] ins = "b" -> [m EXCEPT !.core.r[15] = FW_ENTRY]
          [] ins = "dabort" -> [m EXCEPT !.core.r[15] = ABORT_VECTOR]
          [] OTHER -> m

\* Breakpoint comparator i against the instruction address pc: the word
\* address equals DBGBVR(i) and the byte lane of pc is selected by BAS.
AddrMatch(m, i, pc) ==
    /\ BitClear(pc, 3) = m.dbg.bvr[i]
    /\ BitAnd(Shr(m.dbg.bcr[i], 5), Shl(1, pc % 4)) # 0

BreakpointHit(m) ==
    \E i \in DOMAIN m.dbg.bcr :
        /\ BitAnd(m.dbg.bcr[i], DBGBCR_EN) # 0
        /\ IF BitAnd(m.dbg.bcr[i], DBGBCR_INST_MISMATCH) # 0
           THEN ~AddrMatch(m, i, m.core.r[15])
           ELSE AddrMatch(m, i, m.core.r[15])

VectorCatch(m) ==
    \/ m.core.r[15] = 0 /\ BitAnd(m.dbg.vcr, DBGVCR_R) # 0
    \/ m.core.r[15] = ABORT_VECTOR /\ BitAnd(m.dbg.vcr, DBGVCR_SD) # 0

EnterDebug(m, moe) ==
    [m EXCEPT !.dbg.dscr.HALTED = TRUE, !.dbg.dscr.RESTARTED = FALSE,
              !.dbg.dscr.MOE = moe, !.dbg.hrq = FALSE]

\* The debug event, if any, that stops the core before its next instruction.
DebugEvent(m) ==
    IF m.dbg.hrq THEN DBGDSCR_MOE_HALT_REQ
    ELSE IF m.dbg.dscr.HDBGEN /\ VectorCatch(m) THEN VCATCH_MOE
    ELSE IF m.dbg.dscr.HDBGEN /\ BreakpointHit(m) THEN BKPT_MOE
    ELSE -1

\* The load of the trampoline has read the word at 0x8: with halting debug
\* enabled, an enabled watchpoint comparator on that word that watches loads
\* stops the core with a synchronous watchpoint event.
LoadEvent(m) ==
    IF /\ m.core.lastins = "ldr_r0_pc" /\ m.dbg.dscr.HDBGEN
       /\ \E i \in DOMAIN m.dbg.wcr :
                /\ BitAnd(m.dbg.wcr[i], DBGWCR_EN) # 0
                /\ BitAnd(m.dbg.wcr[i], DBGWCR_LSC_LOAD) # 0
                /\ m.dbg.wvr[i] = 8
    THEN EnterDebug(m, DBGDSCR_MOE_WATCH_SYNC)
    ELSE m

\* The running core enters debug state or executes one instruction.
CoreStep(m, kind) ==
    IF m.dbg.dscr.HALTED THEN m
    ELSE IF DebugEvent(m) # -1 THEN EnterDebug(m, DebugEvent(m))
    ELSE LoadEvent([ExecInstr(m, kind) EXCEPT !.core.executed = @ + 1,
                                              !.core.lastins = InstrAt(m.core.r[15], kind)])

\* The slave-reset sequence of cortexa_reset (the system() calls): the core
\* leaves debug state, takes its reset values and starts at the reset vector.
SlaveReset(m) ==
    CoreStep([m EXCEPT !.dbg.dscr.HALTED = FALSE, !.dbg.hrq = FALSE,
                       !.dbg.halt_seen = FALSE,
                       !.core.r = [i \in 0..15 |-> 0], !.core.executed = 0,
                       !.core.cpsr = RESET_CPSR], "seq")

(***************************************************************************)
(* Halt, resume, attach, detach, reset.                                    *)
(*                                                                         *)
(* m.fate is "ok" while the controlling process runs; an operator that     *)
(* meets a store through a null pointer, a use of the freed target, a      *)
(* failed assert or a wait that never ends stops there and names it; the   *)
(* loops of the driver go on only while the process runs.                  *)
(***************************************************************************)
Reasons == {"RUNNING", "ERROR", "REQUEST", "STEPPING", "BREAKPOINT", "WATCHPOINT", "FAULT"}

\* A faulty destroy callback: it leaves the stored handle as it is.
destroy_keeps_handle(m) == m

\* target_list_free (target.c): every target is destroyed, and the destroy
\* callback of the controller it is attached to is called.
crash_watchdog_destroy(m) == [m EXCEPT !.cwt = NULL]

target_list_free(m) ==
    LET m1 == IF m.target_list # <<>> /\ m.target_list[1].tc = "crash_watchdog_controller"
              THEN crash_watchdog_destroy(m) ELSE m
    IN  [m1 EXCEPT !.target_list = <<>>, !.bw_list = <<>>]

\* The exception a TRY_CATCH region around one APB access ends with.
Exceptions == {"none", "EXCEPTION_TIMEOUT", "EXCEPTION_ERROR"}

cortexa_halt_request(m, e) ==
    IF e = "none" THEN apb_write(m, DBGDRCR, DBGDRCR_HRQ) ELSE m

\* Lines 641-643: what cortexa_halt_request prints through tc_printf.
HaltRequestPrints(e) ==
    IF e = "none" THEN <<>> ELSE <<"Timeout sending interrupt, is target in WFI?\n">>

\* A faulty loop: the last watch record wins, however many there are.
RECURSIVE WatchWalkLast(_, _, _)
WatchWalkLast(bw, reason, st) ==
    IF bw = <<>> THEN [reason |-> reason, stored |-> st]
    ELSE IF Head(bw).type \notin {"WATCH_WRITE", "WATCH_READ", "WATCH_ACCESS"}
    THEN WatchWalkLast(Tail(bw), reason, st)
    ELSE WatchWalkLast(Tail(bw), "WATCHPOINT", <<Head(bw).addr>>)

\* The for loop of lines 683-696 over the list bw, entered with reason and
\* with st, what the loop has stored through watch so far: <<>> or <<addr>>.
RECURSIVE WatchWalk(_, _, _)
WatchWalk(bw, reason, st) ==
    IF bw = <<>> THEN [reason |-> reason, stored |-> st]
    ELSE IF Head(bw).type \notin WatchTypes THEN WatchWalk(Tail(bw), reason, st)
    ELSE IF reason = "WATCHPOINT" THEN [reason |-> "BREAKPOINT", stored |-> st]
    ELSE WatchWalk(Tail(bw), "WATCHPOINT", <<Head(bw).addr>>)

\* A faulty cortexa_halt_poll: it takes a timed-out read of DBGDSCR for a
\* read of a halted core.
halt_poll_ignores_timeout(m, watch, e) ==
    IF e = "EXCEPTION_ERROR"
    THEN [m |-> target_list_free(m), v |-> "ERROR", watch |-> <<>>]
    ELSE [m |-> cortexa_regs_read_internal(
                    apb_write(m, DBGDSCR, [apb_read(m, DBGDSCR) EXCEPT !.ITREN = TRUE])),
          v |-> "BREAKPOINT", watch |-> <<>>]

\* Lines 674-704, the core has halted: m is the target after line 671, moe
\* the method of entry line 675 takes from DBGDSCR.
HaltReason(m, moe, watch) ==
    LET walk == WatchWalk(m.bw_list, "BREAKPOINT", <<>>)
        reason == CASE moe = DBGDSCR_MOE_HALT_REQ -> "REQUEST"
                    [] moe \in {DBGDSCR_MOE_WATCH_ASYNC, DBGDSCR_MOE_WATCH_SYNC} ->
                            walk.reason
                    [] OTHER -> "BREAKPOINT"
        storing == moe \in {DBGDSCR_MOE_WATCH_ASYNC, DBGDSCR_MOE_WATCH_SYNC}
                   /\ walk.stored # <<>>
    IN  IF storing /\ watch = NULL
        THEN [m |-> [m EXCEPT !.fate = "null store"], v |-> reason, watch |-> <<>>]
        ELSE [m |-> cortexa_regs_read_internal(m), v |-> reason,
              watch |-> IF storing THEN walk.stored ELSE <<>>]

\* cortexa_halt_poll without the re-enable of ITREN of lines 669-671.
halt_poll_leaves_itren(m, watch, e) ==
    IF e = "EXCEPTION_ERROR"
    THEN [m |-> target_list_free(m), v |-> "ERROR", watch |-> <<>>]
    ELSE IF e = "EXCEPTION_TIMEOUT" \/ ~apb_read(m, DBGDSCR).HALTED
    THEN [m |-> m, v |-> "RUNNING", watch |-> <<>>]
    ELSE HaltReason(m, apb_read(m, DBGDSCR).MOE, watch)

\* watch is NULL or "watch", the caller's target_addr; the result's watch is
\* what the call stored in *watch: <<>> or <<addr>>.
cortexa_halt_poll(m, watch, e) ==
    IF e = "EXCEPTION_ERROR"
    THEN [m |-> target_list_free(m), v |-> "ERROR", watch |-> <<>>]
    ELSE IF e = "EXCEPTION_TIMEOUT" \/ ~apb_read(m, DBGDSCR).HALTED
    THEN [m |-> m, v |-> "RUNNING", watch |-> <<>>]
    ELSE HaltReason(apb_write(m, DBGDSCR, [apb_read(m, DBGDSCR) EXCEPT !.ITREN = TRUE]),
                    apb_read(m, DBGDSCR).MOE, watch)

\* A faulty write of line 745: ITREN is left as the halt set it.
resume_dscr_keeps_itren(m, step) ==
    apb_write(m, DBGDSCR, [apb_read(m, DBGDSCR) EXCEPT !.INTDIS = step])

\* Lines 733-745: the wait for INSTRCOMPL ends with the value DBGDSCR then
\* reads; interrupts are masked for a step and the ITR is disabled.
ResumeDscr(m, step) ==
    apb_write(m, DBGDSCR, [apb_read(m, DBGDSCR) EXCEPT !.INTDIS = step, !.ITREN = FALSE])

\* A faulty resume: without step, comparator 0 is switched off.
resume_bp0_off(m, step) ==
    LET pc == m.priv.reg_cache.r[15]
        bas == bp_bas(pc, IF BitAnd(m.priv.reg_cache.cpsr, CPSR_THUMB) # 0 THEN 2 ELSE 4)
    IN  apb_write(apb_write(m, DBGBVR(0), IF step THEN BitClear(pc, 3) ELSE m.priv.bvr0),
                  DBGBCR(0),
                  IF step THEN BitOr(BitOr(DBGBCR_INST_MISMATCH, bas), DBGBCR_EN)
                  ELSE 0)

\* Lines 711-722: comparator 0 is the step's address-mismatch breakpoint on
\* the instruction at the cached pc, or goes back to what the cache holds.
ResumeBp0(m, step) ==
    LET pc == m.priv.reg_cache.r[15]
        bas == bp_bas(pc, IF BitAnd(m.priv.reg_cache.cpsr, CPSR_THUMB) # 0 THEN 2 ELSE 4)
    IN  apb_write(apb_write(m, DBGBVR(0), IF step THEN BitClear(pc, 3) ELSE m.priv.bvr0),
                  DBGBCR(0),
                  IF step THEN BitOr(BitOr(DBGBCR_INST_MISMATCH, bas), DBGBCR_EN)
                  ELSE m.priv.bcr0)

cortexa_halt_resume(m, step) ==
    \* every pass of the restart loop writes the same request
    apb_write(ResumeDscr(apb_write(cortexa_regs_write_internal(ResumeBp0(m, step)),
                                   DBGITR, Ins("mcr_iciallu", 0)),
                         step),
              DBGDRCR, BitOr(DBGDRCR_CSE, DBGDRCR_RRQ))

RECURSIVE ZeroBcrs(_, _)
ZeroBcrs(m, i) ==
    IF i = m.priv.hw_breakpoint_max \/ m.fate # "ok" THEN m
    ELSE ZeroBcrs(apb_write(m, DBGBCR(i), 0), i + 1)

\* The core answers a pending halt request.
HaltOnRequest(m) ==
    IF m.dbg.hrq /\ ~m.dbg.dscr.HALTED /\ ~m.srst
    THEN EnterDebug(m, DBGDSCR_MOE_HALT_REQ) ELSE m

RECURSIVE AttachWait(_, _, _, _)

\* A faulty wait: "tries--" for "--tries", so that the count runs past 0.
AttachWaitPostfix(p, tries, pass, env) ==
    IF p.v # "RUNNING"
    THEN [m |-> p.m, tries |-> tries, polls |-> pass, halted |-> p.v # "ERROR"]
    ELSE IF tries = 0
    THEN [m |-> p.m, tries |-> -1, polls |-> pass, halted |-> FALSE]
    ELSE AttachWait(p.m, tries - 1, pass + 1, env)

\* Line 438 after its call of target_halt_poll has returned p: the loop ends
\* when the poll saw a halt or when --tries reaches 0.
AttachWaitPolled(p, tries, pass, env) ==
    IF p.v # "RUNNING"
    THEN [m |-> p.m, tries |-> tries, polls |-> pass, halted |-> p.v # "ERROR"]
    ELSE IF tries - 1 = 0
    THEN [m |-> p.m, tries |-> 0, polls |-> pass, halted |-> FALSE]
    ELSE AttachWait(p.m, tries - 1, pass + 1, env)

\* The while loop of line 438.  env.haltAt is the pass before whose poll the
\* core answers the halt request, env.e the exception its polls end with,
\* env.ub what a use of the freed target makes the function return.
\* polls counts the calls of target_halt_poll, halted says one saw a halt.
AttachWait(m, tries, pass, env) ==
    IF m.srst THEN [m |-> m, tries |-> tries, polls |-> pass - 1, halted |-> FALSE]
    ELSE AttachWaitPolled(cortexa_halt_poll(IF pass >= env.haltAt THEN HaltOnRequest(m)
                                            ELSE m,
                                            NULL, env.e),
                          tries, pass, env)

platform_srst_set_val(m, assert) ==
    IF m.srst /\ ~assert
    THEN \* the core leaves reset and starts at the reset vector
         [m EXCEPT !.srst = FALSE, !.core.r[15] = 0, !.core.cpsr = RESET_CPSR,
                   !.core.executed = 0, !.dbg.dscr.HALTED = FALSE,
                   !.dbg.halt_seen = FALSE]
    ELSE [m EXCEPT !.srst = assert]

\* Lines 430-433: halting debug, the ITR and stall mode are enabled.
AttachDscr(m) ==
    apb_write(m, DBGDSCR, [apb_read(m, DBGDSCR) EXCEPT !.HDBGEN = TRUE, !.ITREN = TRUE,
                               !.EXTDCCMODE = DBGDSCR_EXTDCCMODE_STALL])

\* A faulty attach: the in-use mask and bcr0 are left as they were.
attach_clear_keeps_mask(m) ==
    ZeroBcrs(apb_write(m, DBGVCR, BitOr(BitOr(DBGVCR_SU, DBGVCR_SP), DBGVCR_SD)), 0)

\* Lines 444-451: the vector catches are set, every breakpoint is cleared.
AttachClear(m) ==
    [ZeroBcrs(apb_write(m, DBGVCR, BitOr(BitOr(DBGVCR_SU, DBGVCR_SP), DBGVCR_SD)), 0)
        EXCEPT !.priv.hw_breakpoint_mask = 0, !.priv.bcr0 = 0]

\* Lines 440-455: w is what the wait loop ended with.
AttachEnd(w, env) ==
    IF w.tries = 0 THEN [m |-> w.m, v |-> FALSE, polls |-> w.polls, halted |-> w.halted]
    ELSE IF w.m.target_list = <<>>
    THEN \* the rest of the function works on the freed target
         [m |-> [w.m EXCEPT !.fate = "use after free"], v |-> env.ub,
          polls |-> w.polls, halted |-> w.halted]
    ELSE [m |-> platform_srst_set_val(AttachClear(w.m), FALSE), v |-> TRUE,
          polls |-> w.polls, halted |-> w.halted]

cortexa_attach(m, env) ==
    AttachEnd(AttachWait(cortexa_halt_request(AttachDscr(apb_write(cortexa_check_error(m).m,
                                                                   DBGLAR, DBGLAR_KEY)),
                                              env.e),
                         10, 1, env),
              env)

\* Lines 479-487: halting debug and the ITR are disabled.
DetachDscr(m) ==
    apb_write(m, DBGDSCR, [apb_read(m, DBGDSCR) EXCEPT !.HDBGEN = FALSE, !.ITREN = FALSE])

cortexa_detach(m) ==
    apb_write(DetachDscr(apb_write(cortexa_regs_write_internal(apb_write(ZeroBcrs(m, 0),
                                                                         DBGVCR, 0)),
                                   DBGITR, Ins("mcr_iciallu", 0))),
              DBGDRCR, BitOr(DBGDRCR_CSE, DBGDRCR_RRQ))

\* cortexa_probe: a new target with a zeroed priv and the slot counts of
\* DBGDIDR.
ZeroCache ==
    [r |-> [i \in 0..15 |-> 0], cpsr |-> 0, fpscr |-> 0, d |-> [i \in 0..15 |-> <<0, 0>>]]

cortexa_probe(m) ==
    LET dbgdidr == apb_read(m, DBGDIDR)
    IN  [m EXCEPT !.priv = [reg_cache |-> ZeroCache,
                            hw_breakpoint_max |-> (Shr(dbgdidr, 24) % 16) + 1,
                            hw_breakpoint_mask |-> 0,
                            bcr0 |-> 0, bvr0 |-> 0,
                            hw_watchpoint_max |-> (Shr(dbgdidr, 28) % 16) + 1,
                            hw_watchpoint_mask |-> 0,
                            mmu_fault |-> FALSE],
                  !.target_list = <<[tc |-> NULL]>>,
                  !.bw_list = <<>>]

\* target_mem_write32 (target.c): t->mem_write of the value's four bytes.
target_mem_write32(m, addr, value) == cortexa_slow_mem_write(m, addr, BytesOf(value))

\* Line 580: p is what the poll that ends the loop returned for the target m,
\* the core after the instructions it executed since the resume.
StepResult(m, p) ==
    IF p.v = "RUNNING" THEN Ret([m EXCEPT !.fate = "hang"], FALSE)
    ELSE Ret(p.m, p.v = "BREAKPOINT")

\* Lines 577-580: the polls of the stepping core m.  While it polls, the core
\* executes (env.kind is what the firmware holds at its pc) until a debug
\* event stops it; if none does, every poll returns RUNNING and the loop
\* never ends.
StepPolled(m, env) == StepResult(m, cortexa_halt_poll(m, NULL, env.e))

StepPoll(m, env) ==
    IF m.fate # "ok" THEN Ret(m, FALSE)
    ELSE StepPolled(CoreStep(CoreStep(m, env.kind), env.kind), env)

step_one_instruction(m, env) == StepPoll(cortexa_halt_resume(m, TRUE), env)

\* A faulty cortexa_reset: it puts the reset-only trap back instead of the
\* traps it found.
reset_end_keeps_trap(s, dbgvcr) ==
    IF s.m.fate # "ok" THEN s.m
    ELSE IF ~s.v THEN [s.m EXCEPT !.fate = "assert"]
    ELSE apb_write(s.m, DBGVCR, DBGVCR_R)

\* Lines 629-632 after the second step has returned s: the assert and the
\* restore of DBGVCR.
ResetEnd(s, dbgvcr) ==
    IF s.m.fate # "ok" THEN s.m
    ELSE IF ~s.v THEN [s.m EXCEPT !.fate = "assert"]
    ELSE apb_write(s.m, DBGVCR, dbgvcr)

\* A faulty trampoline: it steps over one instruction only.
reset_one_step(s, dbgvcr, env) == ResetEnd(s, dbgvcr)

\* Lines 628-632 after the first step has returned s.
ResetSecondStep(s, dbgvcr, env) ==
    IF s.m.fate # "ok" THEN s.m
    ELSE IF ~s.v THEN [s.m EXCEPT !.fate = "assert"]
    ELSE ResetEnd(step_one_instruction(s.m, env), dbgvcr)

\* Lines 627-632: m is the target after the slave has come out of reset and
\* has halted at the reset vector.
ResetTrampoline(m, dbgvcr, env) ==
    IF m.fate # "ok" THEN m
    ELSE ResetSecondStep(step_one_instruction(apb_write(m, DBGVCR, 0), env), dbgvcr, env)

\* Lines 593-632: m is the target after the writes that disable the watchdog.
ResetSlave(m, dbgvcr, env) ==
    IF m.fate # "ok" THEN m
    ELSE ResetTrampoline(cortexa_regs_read_internal(SlaveReset(apb_write(m, DBGVCR, DBGVCR_R))),
                         dbgvcr, env)

cortexa_reset(m, env) ==
    ResetSlave(target_mem_write32(target_mem_write32(m, WDT_DISABLE, 305419896),
                                  WDT_DISABLE, -2023406815),
               apb_read(m, DBGVCR), env)

(***************************************************************************)
(* coredump.c.  A struct corefile is the record [ehdr, phdr, segments,      *)
(* note, note_size, overrun]: phdr and segments are the first e_phnum       *)
(* elements of the two arrays, note is the byte sequence of the note blob,  *)
(* overrun records a store past the end of the arrays.  A segment source    *)
(* is a byte sequence (the note blob) or <<"mem", base>> (a mapped region). *)
(* A file is the sequence of the fwrite calls made on it, each a record     *)
(* [kind, size, data].                                                      *)
(***************************************************************************)
MAX_SEGMENTS == 10
EHSIZE == 52                \* sizeof(struct Elf32_Ehdr)
PHENTSIZE == 32             \* sizeof(struct Elf32_Phdr)
NOTEHDR == 12               \* sizeof(struct Elf32_Note)
ET_CORE == 4
PT_LOAD == 1
PT_NOTE == 4
NT_PRSTATUS == 1
NT_AUXV == 6
NT_ARM_VFP == 1024
SIGSEGV == 11
EM_ARM == 40                \* 0x28

core_new(machine) ==
    [ehdr |-> [e_type |-> ET_CORE, e_version |-> 1, e_ehsize |-> EHSIZE,
               e_phoff |-> EHSIZE, e_phentsize |-> PHENTSIZE, e_phnum |-> 0,
               e_machine |-> machine],
     phdr |-> <<>>, segments |-> <<>>, note |-> <<>>, note_size |-> 0,
     overrun |-> FALSE]

\* What reads back from array element e_phnum after core_add_ph has stored x
\* there: x, and past the end of the array x or whatever the memory behind
\* the array then holds (ub names the outcome; junk stands for that memory).
Stored(cf, x, junk, ub) ==
    IF cf.ehdr.e_phnum < MAX_SEGMENTS \/ ub = "kept" THEN x ELSE junk

core_add_ph(cf, p_type, p_vaddr, data, p_filesz, ub) ==
    [cf EXCEPT !.phdr = Append(@, Stored(cf, [p_type |-> p_type, p_vaddr |-> p_vaddr,
                                              p_memsz |-> p_filesz, p_filesz |-> p_filesz,
                                              p_offset |-> 0],
                                         [p_type |-> 0, p_vaddr |-> 0, p_memsz |-> 0,
                                          p_filesz |-> 0, p_offset |-> 0], ub)),
               !.segments = Append(@, Stored(cf, data, <<>>, ub)),
               !.ehdr.e_phnum = @ + 1,
               !.overrun = @ \/ cf.ehdr.e_phnum >= MAX_SEGMENTS]

\* A faulty pad: nothing is added.
pad_none(x) == x

pad(x) == ((x + 3) \div 4) * 4

Zeros(n) == [k \in 1..n |-> 0]

\* memcpy(buf + off, bytes, Len(bytes))
Poke(buf, off, bytes) ==
    [k \in 1..Len(buf) |->
        IF k > off /\ k <= off + Len(bytes) THEN bytes[k - off] ELSE buf[k]]

\* struct Elf32_Note, as bytes.
NoteHeader(namelen, datalen, type) ==
    BytesOf(namelen) \o BytesOf(datalen) \o BytesOf(type)

\* Lines 56-59: this_size zero bytes, then the three copies.  name is the
\* string without its terminating NUL, which memcpy copies with it.
NoteRecord(name, type, data, len, this_size) ==
    Poke(Poke(Poke(Zeros(this_size), 0, NoteHeader(Len(name) + 1, len, type)),
              NOTEHDR, Append(name, 0)),
         NOTEHDR + pad(Len(name) + 1), SubSeq(data, 1, len))

NoteAppend(cf, name, type, data, len, this_size) ==
    [cf EXCEPT !.note = @ \o NoteRecord(name, type, data, len, this_size),
               !.note_size = @ + this_size]

core_note_add(cf, name, type, data, len) ==
    NoteAppend(cf, name, type, data, len, NOTEHDR + pad(Len(name) + 1) + pad(len))

\* Lines 84-90: the program headers with p_offset set, offset being the
\* running file offset.
RECURSIVE DumpOffsets(_, _)
DumpOffsets(phdr, offset) ==
    IF phdr = <<>> THEN <<>>
    ELSE <<[Head(phdr) EXCEPT !.p_offset = offset]>>
            \o DumpOffsets(Tail(phdr), offset + Head(phdr).p_filesz)

\* The fwrite calls of lines 83-94 on the builder cf after line 87.
DumpFile(cf) ==
    <<[kind |-> "ehdr", size |-> EHSIZE, data |-> cf.ehdr]>>
        \o [i \in 1..Len(cf.phdr) |->
                [kind |-> "phdr", size |-> PHENTSIZE, data |-> cf.phdr[i]]]
        \o [i \in 1..Len(cf.phdr) |->
                [kind |-> "segment", size |-> cf.phdr[i].p_filesz,
                 data |-> cf.segments[i]]]

\* A faulty layout: the offsets start at the end of the ELF header.
DumpLayoutNoHeaders(cf) ==
    [cf EXCEPT !.phdr = DumpOffsets(@, cf.ehdr.e_ehsize)]

\* Lines 84-90: cf is the builder after line 80.
DumpLayout(cf) ==
    [cf EXCEPT !.phdr = DumpOffsets(@, cf.ehdr.e_ehsize
                                        + cf.ehdr.e_phentsize * cf.ehdr.e_phnum)]

\* core_dump: the builder after the call and the file written.
core_dump(cf, ub) ==
    Ret(DumpLayout(core_add_ph(cf, PT_NOTE, 0, cf.note, cf.note_size, ub)),
        DumpFile(DumpLayout(core_add_ph(cf, PT_NOTE, 0, cf.note, cf.note_size, ub))))

(***************************************************************************)
(* The crash watchdog (crash_watchdog.c) and what it calls.                *)
(***************************************************************************)

\* The sections table of zynq_amp_core_dump: <<base, size>>.
Sections ==
    << <<0, 65536>>, <<2063597568, 33554432>>, <<2097152000, 8388608>>,
       <<2105540608, 41943040>> >>

RECURSIVE CleanSections(_, _)
CleanSections(m, secs) ==
    IF secs = <<>> \/ m.fate # "ok" THEN m
    ELSE CleanSections(cortexa_cache_clean(m, Head(secs)[1], Head(secs)[2]), Tail(secs))

\* What zynq_amp_core_dump does to the target: it copies the register cache
\* and cleans the cache lines of every section before it maps the section.
zynq_amp_core_dump(m) == CleanSections(m, Sections)

\* struct ARM_prstatus as bytes: pr_cursig is the 16-bit field at offset 12,
\* regs the 18 words at offset 72 of the 148 bytes.
PrstatusBytes(sig, regs) ==
    Zeros(12) \o <<sig % 256, sig \div 256>> \o Zeros(58)
        \o Flatten([k \in 1..18 |-> regs[k - 1]]) \o Zeros(4)

\* struct ARM_vfp as bytes: d[32], low word first, then sr.
VfpBytes(fregs) ==
    Flatten([k \in 1..64 |-> fregs.d[(k - 1) \div 2][IF k % 2 = 1 THEN 2 ELSE 1]])
        \o BytesOf(fregs.sr)

core_note_add_prstatus(cf, signal, regs) ==
    core_note_add(cf, <<67, 79, 82, 69>>, NT_PRSTATUS, PrstatusBytes(signal, regs), 148)

core_note_add_arm_vfp(cf, regs) ==
    core_note_add(cf, <<76, 73, 78, 85, 88>>, NT_ARM_VFP, VfpBytes(regs), 260)

\* Lines 133 and 137: regs[18], zeroed, then the first 17 words of treg, which
\* are r0..r15 and cpsr of the register cache.
DumpRegs(cache) ==
    [k \in 0..17 |-> IF k < 16 THEN cache.r[k] ELSE IF k = 16 THEN cache.cpsr ELSE 0]

\* What the claim names: fpscr and d0..d15 of the cache, d16..d31 zero.
CacheFregs(cache) ==
    [sr |-> cache.fpscr, d |-> [i \in 0..31 |-> IF i < 16 THEN cache.d[i] ELSE <<0, 0>>]]

\* Lines 138-139: regs is a uint32_t pointer, so regs + 18 * sizeof(uint32_t)
\* is 72 words above regs, which has 18: both copies read the stack past the
\* array.  ub names what that memory holds: by chance the values CacheFregs
\* gives, or other words of the stack.
DumpFregs(cache, ub) ==
    IF ub = "cache" THEN CacheFregs(cache)
    ELSE [sr |-> -1, d |-> [i \in 0..31 |-> <<-1, i>>]]

\* Lines 145-150, without the cache maintenance: one PT_LOAD header a section.
RECURSIVE AddSections(_, _)
AddSections(cf, secs) ==
    IF secs = <<>> THEN cf
    ELSE AddSections(core_add_ph(cf, PT_LOAD, Head(secs)[1], <<"mem", Head(secs)[1]>>,
                                 Head(secs)[2], "kept"),
                     Tail(secs))

\* Lines 140-143: the three notes.
DumpNotes(regs, fregs) ==
    core_note_add_arm_vfp(
        core_note_add(core_note_add_prstatus(core_new(EM_ARM), SIGSEGV, regs),
                      <<67, 79, 82, 69>>, NT_AUXV, BytesOf(16) \o BytesOf(4160), 8),
        fregs)

\* The file zynq_amp_core_dump writes for the target m.
zynq_amp_core_file(m, ub) ==
    core_dump(AddSections(DumpNotes(DumpRegs(cortexa_regs_read(m)),
                                    DumpFregs(cortexa_regs_read(m), ub)),
                          Sections),
              "kept").v

\* target_attach_n (target.c): the n-th target of the list is attached and
\* bound to the controller; NULL when there is no such target or its attach
\* fails.
AttachBind(a, n, tc) ==
    IF a.m.fate # "ok" \/ ~a.v THEN Ret(a.m, NULL)
    ELSE Ret([a.m EXCEPT !.target_list[n].tc = tc], TARGET)

target_attach_n(m, n, tc, env) ==
    IF Len(m.target_list) < n THEN Ret(m, NULL)
    ELSE AttachBind(cortexa_attach(m, env), n, tc)

\* Line 41: m is the target target_reset returned.
WdResume(m, log) ==
    IF m.fate # "ok" THEN [m |-> m, calls |-> log \o <<"core_dump", "reset">>]
    ELSE [m |-> cortexa_halt_resume(m, FALSE),
          calls |-> log \o <<"core_dump", "reset", "resume(false)">>]

\* Lines 40-41: m is the target zynq_amp_core_dump returned.
WdReset(m, log, env) ==
    IF m.fate # "ok" THEN [m |-> m, calls |-> log \o <<"core_dump">>]
    ELSE WdResume(cortexa_reset(m, env.reset), log)

\* Lines 37-41: the three calls of a crash, with the log of the calls made.
WdCrash(m, log, env) == WdReset(zynq_amp_core_dump(m), log, env)

\* A faulty switch: TARGET_HALT_ERROR falls into the crash cases.
WdSwitchErrorDumps(m, reason, log, env) ==
    IF reason = "RUNNING" THEN [m |-> m, calls |-> log] ELSE WdCrash(m, log, env)

\* The switch of lines 27-42.
WdSwitch(m, reason, log, env) ==
    IF reason \in {"RUNNING", "ERROR"} THEN [m |-> m, calls |-> log]
    ELSE WdCrash(m, log, env)

\* Lines 26-42: p is what target_halt_poll returned, log the calls so far.
WdResult(sw, reason) == [m |-> sw.m, calls |-> sw.calls, reason |-> reason]

WdPolled(p, log, env) ==
    IF p.m.fate # "ok" THEN [m |-> p.m, calls |-> log, reason |-> p.v]
    ELSE WdResult(WdSwitch(p.m, p.v, log, env), p.v)

\* Lines 21-23: att is what target_attach_n returned.
WdAttached(att, env) ==
    IF att.m.fate # "ok" THEN [m |-> att.m, calls |-> <<"attach_n">>, reason |-> NULL]
    ELSE IF att.v = NULL
    THEN \* target_halt_resume(NULL, false)
         [m |-> [att.m EXCEPT !.fate = "null target"], calls |-> <<"attach_n">>,
          reason |-> NULL]
    ELSE WdPolled(cortexa_halt_poll(cortexa_halt_resume([att.m EXCEPT !.cwt = att.v], FALSE),
                                    NULL, env.e),
                  <<"attach_n", "resume(false)", "halt_poll">>, env)

\* crash_watchdog_poll.  env.attach, env.e and env.reset are what the target
\* does during the attach, the poll and the reset.  The result's calls is the
\* log of the calls the poll made, in order.
crash_watchdog_poll(m, env) ==
    IF m.fate # "ok" THEN [m |-> m, calls |-> <<>>, reason |-> NULL]
    ELSE IF m.cwt = NULL
    THEN WdAttached(target_attach_n(m, 1, "crash_watchdog_controller", env.attach), env)
    ELSE WdPolled(cortexa_halt_poll(m, NULL, env.e), <<"halt_poll">>, env)

\* cmd_hard_srst (command.c)
cmd_hard_srst(m) ==
    platform_srst_set_val(platform_srst_set_val(target_list_free(m), TRUE), FALSE)

(***************************************************************************)
(* The state machine.                                                      *)
(***************************************************************************)
M == [priv |-> priv, dbg |-> dbg, core |-> core, mem |-> mem, bw_list |-> bw_list,
      target_list |-> target_list, srst |-> srst, cwt |-> crash_watchdog_target,
      fate |-> fate]

Commit(m) ==
    /\ priv' = m.priv
    /\ dbg' = m.dbg
    /\ core' = m.core
    /\ mem' = m.mem
    /\ bw_list' = m.bw_list
    /\ target_list' = m.target_list
    /\ srst' = m.srst
    /\ crash_watchdog_target' = m.cwt
    /\ fate' = m.fate

Last(op, arg, ret, aux) == [op |-> op, arg |-> arg, ret |-> ret, aux |-> aux]

\* DBGDIDR of a core with brps + 1 breakpoints and wrps + 1 watchpoints.
Didr(brps, wrps) == Shl(wrps, 28) + Shl(brps, 24) + 1314816

STALE_BCR == 481            \* a breakpoint an earlier session left enabled
STALE_WCR == 503            \* a watchpoint an earlier session left enabled

InitDscr ==
    [HALTED |-> FALSE, RESTARTED |-> FALSE, MOE |-> 0, SDABORT_L |-> FALSE,
     INTDIS |-> FALSE, ITREN |-> FALSE, HDBGEN |-> FALSE, EXTDCCMODE |-> 0,
     INSTRCOMPL |-> FALSE]

InitDbg(brps, wrps, bcr, wcr) ==
    [didr |-> Didr(brps, wrps), vcr |-> 0, dtrrx |-> 0, dtrtx |-> 0,
     itr |-> Ins("nop", 0), dscr |-> InitDscr, lar |-> 0,
     bvr |-> [i \in 0..brps |-> 0], bcr |-> [i \in 0..brps |-> bcr],
     wvr |-> [i \in 0..wrps |-> 0], wcr |-> [i \in 0..wrps |-> wcr],
     hrq |-> FALSE, restart_ok |-> TRUE, itr_lost |-> FALSE, fault_ev |-> FALSE,
     fast_itr |-> 0, fast_other |-> FALSE, halt_seen |-> FALSE, itr_unseen |-> FALSE]

\* The running firmware's registers: ARM state, or Thumb state at a halfword.
InitCore(thumb) ==
    [r |-> [i \in 0..15 |-> IF i = 15 THEN FW_ENTRY + (IF thumb THEN 2 ELSE 0)
                            ELSE 100 + i],
     cpsr |-> IF thumb THEN 51 ELSE 19, fpscr |-> 7,
     d |-> [i \in 0..15 |-> <<200 + i, 300 + i>>], par |-> 0, executed |-> 0,
     lastins |-> NULL]

InitMem ==
    [a \in {MEM_BASE + 4 * k : k \in 0..(MemWords - 1)} \cup {WDT_DISABLE} |->
        IF a = WDT_DISABLE THEN 0 ELSE 67305985 + 67372036 * ((a - MEM_BASE) \div 4)]

\* buf is the caller's register buffer: <<>> until regs_read has filled it.
InitHost == [state |-> "detached", buf |-> <<>>, at_halt |-> NULL, rt |-> 0,
             step |-> FALSE]

InitFrom(m) ==
    /\ priv = m.priv /\ dbg = m.dbg /\ core = m.core /\ mem = m.mem
    /\ bw_list = m.bw_list /\ target_list = m.target_list /\ srst = m.srst
    /\ crash_watchdog_target = m.cwt /\ fate = m.fate
    /\ host = InitHost
    /\ last = Last("probe", NULL, NULL, NULL)

\* The state after cortexa_probe on a running slave.
InitWith(brps, wrps, bcr, wcr, thumb) ==
    LET m0 == [priv |-> [reg_cache |-> ZeroCache], dbg |-> InitDbg(brps, wrps, bcr, wcr),
               core |-> InitCore(thumb), mem |-> InitMem, bw_list |-> <<>>,
               target_list |-> <<>>, srst |-> FALSE, cwt |-> NULL, fate |-> "ok"]
    IN  InitFrom(cortexa_probe(m0))

\* Every slot count DBGDIDR may report, with comparators an earlier session
\* left enabled or not.
Init ==
    \E brps \in 0..MaxBrps, wrps \in 0..MaxWrps, bcr \in {0, STALE_BCR} :
        InitWith(brps, wrps, bcr, 0, FALSE)

Live == fate = "ok" /\ target_list # <<>>

\* The architectural state of the core that a debugger must preserve.
Arch(c) == [r |-> c.r, cpsr |-> c.cpsr, fpscr |-> c.fpscr, d |-> c.d]

(* ---- the environment: the slave runs ---- *)

SlaveStep(kind) ==
    /\ ~dbg.dscr.HALTED /\ ~srst
    /\ core.executed < MaxRun \/ DebugEvent(M) # -1
    /\ Commit(CoreStep(M, kind))
    /\ last' = Last("slave", kind, NULL, NULL)
    /\ UNCHANGED host

\* A watchpoint hits or the firmware executes a BKPT instruction.
SlaveEvent(moe) ==
    /\ ~dbg.dscr.HALTED /\ ~srst /\ dbg.dscr.HDBGEN
    /\ moe \in {DBGDSCR_MOE_WATCH_ASYNC, DBGDSCR_MOE_WATCH_SYNC} =>
            \E i \in DOMAIN dbg.wcr : BitAnd(dbg.wcr[i], DBGWCR_EN) # 0
    /\ Commit(EnterDebug(M, moe))
    /\ last' = Last("slave", moe, NULL, NULL)
    /\ UNCHANGED host

(* ---- the controlling task (the debug host's requests) ---- *)

\* The slave answers the halt request before the first poll.
Prompt == [haltAt |-> 1, e |-> "none", ub |-> FALSE]

Attach(env) ==
    /\ Live /\ host.state = "detached"
    /\ \E a \in {cortexa_attach(M, env)} :
           /\ Commit(a.m)
           /\ host' = [host EXCEPT !.state = IF a.v THEN "halted" ELSE "detached",
                                   !.rt = IF a.halted THEN 1 ELSE 0, !.buf = <<>>,
                                   !.at_halt = IF a.halted THEN Arch(core) ELSE NULL]
           /\ last' = Last("attach", env, a.v,
                           [polls |-> a.polls, halted |-> a.halted, srst |-> srst,
                            vcr |-> dbg.vcr, bcr |-> dbg.bcr])

Detach ==
    /\ Live /\ host.state = "halted"
    /\ Commit(cortexa_detach(M))
    /\ host' = InitHost
    /\ last' = Last("detach", NULL, NULL, NULL)

HaltRequest(e) ==
    /\ Live /\ host.state = "running"
    /\ Commit(cortexa_halt_request(M, e))
    /\ last' = Last("halt_request", e, NULL, [printed |-> HaltRequestPrints(e)])
    /\ UNCHANGED host

HaltPoll(e) ==
    /\ Live /\ host.state = "running"
    /\ \E p \in {cortexa_halt_poll(M, "watch", e)} :
           /\ Commit(p.m)
           /\ host' = IF p.v \notin {"RUNNING", "ERROR"}
                      THEN [state |-> "halted", buf |-> <<>>, at_halt |-> Arch(core),
                            rt |-> 1, step |-> FALSE]
                      ELSE IF p.v = "ERROR" THEN InitHost ELSE host
           /\ last' = Last("halt_poll", e, p.v,
                           [watch |-> p.watch, moe |-> dbg.dscr.MOE, bw |-> bw_list,
                            hw_halted |-> dbg.dscr.HALTED, pc |-> core.r[15],
                            step |-> host.step, prev_pc |-> priv.reg_cache.r[15],
                            executed |-> core.executed, ins |-> core.lastins])

Resume(step) ==
    /\ Live /\ host.state = "halted"
    /\ Commit(cortexa_halt_resume(M, step))
    /\ host' = [host EXCEPT !.state = "running", !.step = step]
    /\ last' = Last("resume", step, NULL,
                    [rt |-> host.rt, at_halt |-> host.at_halt, bcr |-> dbg.bcr[0]])

RegsRead ==
    /\ Live /\ host.state = "halted"
    /\ host' = [host EXCEPT !.buf = <<cortexa_regs_read(M)>>,
                            !.rt = IF host.rt = 1 THEN 2 ELSE host.rt]
    /\ last' = Last("regs_read", NULL, NULL, NULL)
    /\ UNCHANGED <<priv, dbg, core, mem, bw_list, target_list, srst,
                   crash_watchdog_target, fate>>

\* regs_write with the buffer regs_read filled
RegsWrite ==
    /\ Live /\ host.state = "halted" /\ host.buf # <<>>
    /\ Commit(cortexa_regs_write(M, host.buf[1]))
    /\ host' = [host EXCEPT !.rt = IF host.rt = 2 THEN 3 ELSE host.rt]
    /\ last' = Last("regs_write", NULL, NULL, NULL)

\* The requests the debug host makes: [type, addr, size, reserved].
Bw(type, addr, size) == [type |-> type, addr |-> addr, size |-> size, reserved |-> 0]

Requests ==
    { Bw("BREAK_HARD", FW_ENTRY, 4), Bw("BREAK_HARD", FW_ENTRY + 2, 2),
      Bw("BREAK_HARD", FW_ENTRY + 4, 3), Bw("BREAK_SOFT", FW_ENTRY + 4, 4),
      Bw("WATCH_WRITE", MEM_BASE + 2, 2), Bw("WATCH_ACCESS", MEM_BASE + 1, 1),
      Bw("WATCH_READ", MEM_BASE, 8) }

RunRequests == { Bw("BREAK_HARD", FW_ENTRY, 4), Bw("BREAK_HARD", FW_ENTRY + 4, 4) }

PollRequests ==
    { Bw("BREAK_HARD", FW_ENTRY + 4, 4), Bw("WATCH_WRITE", MEM_BASE + 2, 2),
      Bw("WATCH_READ", MEM_BASE, 4), Bw("WATCH_ACCESS", MEM_BASE + 1, 1) }

MemRequests ==
    { Bw("BREAK_HARD", FW_ENTRY, 4), Bw("BREAK_HARD", MEM_BASE + 2 * PAGE, 4),
      Bw("BREAK_HARD", MEM_BASE + 6, 2), Bw("BREAK_HARD", MEM_BASE + 8, 2) }

\* target_breakwatch_set (target.c): the record joins the list when the
\* driver's set returns 0.
BreakwatchSet(bw) ==
    /\ Live /\ host.state = "halted" /\ Len(bw_list) < MaxBw
    /\ \A k \in DOMAIN bw_list : [bw_list[k] EXCEPT !.reserved = 0] # bw
    /\ \E s \in {cortexa_breakwatch_set(M, bw)} :
           /\ Commit([s.m EXCEPT !.bw_list = IF s.v = 0 THEN <<s.bw>> \o @ ELSE @])
           /\ last' = Last("set", s.bw, s.v,
                           [bmask |-> priv.hw_breakpoint_mask,
                            wmask |-> priv.hw_watchpoint_mask])
    /\ UNCHANGED host

\* target_breakwatch_clear (target.c): the record leaves the list when the
\* driver's clear returns 0.
BreakwatchClear(k) ==
    /\ Live /\ host.state = "halted" /\ k \in DOMAIN bw_list
    /\ \E c \in {cortexa_breakwatch_clear(M, bw_list[k])} :
           /\ Commit([c.m EXCEPT !.bw_list = IF c.v = 0
                                             THEN SubSeq(@, 1, k - 1) \o SubSeq(@, k + 1, Len(@))
                                             ELSE @])
           /\ last' = Last("clear", bw_list[k], c.v, NULL)
    /\ UNCHANGED host

CheckError ==
    /\ Live
    /\ \E c \in {cortexa_check_error(M)} :
           /\ Commit(c.m)
           /\ last' = Last("check_error", NULL, c.v,
                           [faulted |-> dbg.fault_ev, after_check |-> last.op = "check_error"])
    /\ UNCHANGED host

\* The reads and writes the debug host asks for: in the data window, across
\* its end (the access aborts), unaligned, and of an unmapped address.
MemReads == { <<MEM_BASE, 4>>, <<MEM_BASE + 1, 2>>, <<MEM_BASE + 4 * MemWords, 4>>,
              <<MEM_BASE + 4 * (MemWords - 1), 8>>, <<MEM_BASE + 3, 5>> }
MemWrites == { <<MEM_BASE, <<1, 2, 3, 4>>>>, <<MEM_BASE + 5, <<9>>>>,
               <<MEM_BASE + 4 * MemWords, <<1, 2, 3, 4>>>>,
               <<MEM_BASE + 4 * MemWords + 1, <<7>>>> }

MemRead(a) ==
    /\ Live /\ host.state = "halted"
    /\ \E rd \in {cortexa_slow_mem_read(M, a[1], a[2])} :
           /\ Commit(rd.m)
           /\ last' = Last("mem_read", a, rd.v, [mem |-> mem])
    /\ UNCHANGED host

MemWrite(a) ==
    /\ Live /\ host.state = "halted"
    /\ Commit(cortexa_slow_mem_write(M, a[1], a[2]))
    /\ last' = Last("mem_write", a, NULL, [mem |-> mem])
    /\ UNCHANGED host

(* ---- breakpoints and watchpoints: set, clear, attach, detach ---- *)
Next ==
    \/ Attach(Prompt)
    \/ Detach
    \/ \E bw \in Requests : BreakwatchSet(bw)
    \/ \E k \in 1..MaxBw : BreakwatchClear(k)

Spec == Init /\ [][Next]_vars

(* ---- run control: halt, registers, resume, step ---- *)
InitRun == \E thumb \in BOOLEAN : InitWith(MaxBrps, MaxWrps, 0, 0, thumb)

NextRun ==
    \/ Attach(Prompt)
    \/ HaltRequest("none")
    \/ HaltPoll("none")
    \/ \E step \in BOOLEAN : Resume(step)
    \/ RegsRead
    \/ RegsWrite
    \/ \E bw \in RunRequests : BreakwatchSet(bw)
    \/ \E kind \in Kinds : SlaveStep(kind)

SpecRun == InitRun /\ [][NextRun]_vars

(* ---- halt reasons: what halt_poll makes of a halt ---- *)
InitPoll == InitWith(MaxBrps, MaxWrps, 0, 0, FALSE)

NextPoll ==
    \/ Attach(Prompt)
    \/ HaltRequest("none")
    \/ HaltPoll("none")
    \/ Resume(FALSE)
    \/ \E bw \in PollRequests : BreakwatchSet(bw)
    \/ \E k \in 1..MaxBw : BreakwatchClear(k)
    \/ \E kind \in {"seq", "dabort"} : SlaveStep(kind)
    \/ \E moe \in {DBGDSCR_MOE_WATCH_ASYNC, DBGDSCR_MOE_WATCH_SYNC, BKPT_MOE} : SlaveEvent(moe)

SpecPoll == InitPoll /\ [][NextPoll]_vars

(* ---- halt request and halt poll when the APB access times out ---- *)
NextExc ==
    \/ Attach(Prompt)
    \/ \E e \in {"none", "EXCEPTION_TIMEOUT"} : HaltRequest(e)
    \/ \E e \in {"none", "EXCEPTION_TIMEOUT"} : HaltPoll(e)
    \/ \E step \in BOOLEAN : Resume(step)
    \/ \E bw \in PollRequests : BreakwatchSet(bw)
    \/ SlaveStep("seq")

SpecExc == InitPoll /\ [][NextExc]_vars

(* ---- memory access and the fault latch ---- *)
InitMemAccess == InitWith(MaxBrps, MaxWrps, 0, 0, FALSE)

NextMem ==
    \/ Attach(Prompt)
    \/ Detach
    \/ CheckError
    \/ \E a \in MemReads : MemRead(a)
    \/ \E a \in MemWrites : MemWrite(a)
    \/ \E bw \in MemRequests : BreakwatchSet(bw)

SpecMem == InitMemAccess /\ [][NextMem]_vars

(* ---- attach: the wait for the halt, SRST ---- *)
\* The slave halts before the first poll, before the tenth or not in time;
\* every access times out; every access ends with a bus error.
AttachEnvs ==
    {[haltAt |-> h, e |-> "none", ub |-> FALSE] : h \in {1, 10, 11}}
        \cup {[haltAt |-> 11, e |-> "EXCEPTION_TIMEOUT", ub |-> FALSE]}
        \cup {[haltAt |-> 1, e |-> "EXCEPTION_ERROR", ub |-> u] : u \in BOOLEAN}

\* The SRST line is driven from outside the driver.
SrstLine(v) ==
    /\ Live /\ host.state = "detached" /\ srst # v
    /\ Commit(platform_srst_set_val(M, v))
    /\ last' = Last("srst", v, NULL, NULL)
    /\ UNCHANGED host

InitAttach == InitWith(MaxBrps, MaxWrps, STALE_BCR, 0, FALSE)

NextAttach ==
    \/ \E env \in AttachEnvs : Attach(env)
    \/ Detach
    \/ \E v \in BOOLEAN : SrstLine(v)
    \/ SlaveStep("seq")

SpecAttach == InitAttach /\ [][NextAttach]_vars

(* ---- the crash watchdog ---- *)
WdEnvs ==
    [attach : [haltAt : {1, 11}, e : {"none"}, ub : {FALSE}],
     e : Exceptions,
     reset : [kind : {"seq"}, e : {"none"}]]

WdPoll(env) ==
    /\ fate = "ok"
    /\ \E r \in {crash_watchdog_poll(M, env)} :
           /\ Commit(r.m)
           /\ last' = Last("wd_poll", env, r.reason,
                           [entry |-> crash_watchdog_target, calls |-> r.calls,
                            hw_halted |-> dbg.dscr.HALTED, moe |-> dbg.dscr.MOE,
                            pc |-> core.r[15],
                            after_crash |-> last.op = "wd_poll" /\ last.ret = "BREAKPOINT",
                            after_error |-> last.op = "wd_poll" /\ last.ret = "ERROR"])
    /\ UNCHANGED host

HardSrst ==
    /\ fate = "ok"
    /\ Commit(cmd_hard_srst(M))
    /\ last' = Last("hard_srst", NULL, NULL, [entry |-> crash_watchdog_target])
    /\ UNCHANGED host

\* The platform scans again and finds the core.
Scan ==
    /\ fate = "ok" /\ target_list = <<>>
    /\ Commit(cortexa_probe(M))
    /\ last' = Last("probe", NULL, NULL, NULL)
    /\ UNCHANGED host

InitWd == InitWith(MaxBrps, MaxWrps, 0, 0, FALSE)

NextWd ==
    \/ \E env \in WdEnvs : WdPoll(env)
    \/ \E kind \in {"seq", "dabort"} : SlaveStep(kind)
    \/ SlaveEvent(BKPT_MOE)
    \/ HardSrst
    \/ Scan

SpecWd == InitWd /\ [][NextWd]_vars

(* ---- the waits on a hardware bit, one loop pass at a time ---- *)
\* While the controlling task is inside cortexa_attach, cortexa_halt_resume
\* or cortexa_detach, host.state names the loop it is in; host.expired says
\* that the platform_timeout to of the call has run out, host.tries is the
\* count of line 437, host.polls the calls of target_halt_poll the attach has
\* made, host.drcr the writes of DBGDRCR the resume has made (2 for more).
WaitStates == {"attach_wait", "resume_instrcompl", "resume_restart", "detach_instrcompl"}

WaitHost(state, step, expired, tries, polls, drcr) ==
    [state |-> state, step |-> step, expired |-> expired, tries |-> tries,
     polls |-> polls, drcr |-> drcr]

\* A faulty loop condition: the timeout is not looked at.
WaitOverNoTimeout(bit, expired) == bit

\* Lines 482-483, 736-737 and 751-752: the loop ends when the awaited bit is
\* set or the timeout has expired.
WaitOver(bit, expired) == bit \/ expired

\* Lines 422-437: attach up to the wait loop.
AttachBegin ==
    /\ Live /\ host.state = "detached"
    /\ Commit(cortexa_halt_request(AttachDscr(apb_write(cortexa_check_error(M).m,
                                                        DBGLAR, DBGLAR_KEY)),
                                   "none"))
    /\ host' = WaitHost("attach_wait", FALSE, FALSE, 10, 0, 0)
    /\ last' = Last("attach_begin", NULL, NULL, NULL)

\* Lines 438-455: p is what the pass's call of target_halt_poll returned.
AttachPolled(p) ==
    IF p.v = "RUNNING" /\ host.tries - 1 # 0
    THEN \* platform_delay(200)
         /\ Commit(p.m)
         /\ host' = [host EXCEPT !.tries = @ - 1, !.polls = @ + 1]
         /\ last' = Last("attach_poll", NULL, p.v, NULL)
    ELSE IF p.v = "RUNNING"
    THEN /\ Commit(p.m)
         /\ host' = [host EXCEPT !.state = "detached", !.tries = 0, !.polls = @ + 1]
         /\ last' = Last("attach_return", NULL, FALSE, NULL)
    ELSE /\ Commit(platform_srst_set_val(AttachClear(p.m), FALSE))
         /\ host' = [host EXCEPT !.state = "halted", !.polls = @ + 1]
         /\ last' = Last("attach_return", NULL, TRUE, NULL)

\* One pass of the while loop of line 438.
AttachPoll ==
    /\ Live /\ host.state = "attach_wait"
    /\ IF srst
       THEN /\ Commit(platform_srst_set_val(AttachClear(M), FALSE))
            /\ host' = [host EXCEPT !.state = "halted"]
            /\ last' = Last("attach_return", NULL, TRUE, NULL)
       ELSE \E p \in {cortexa_halt_poll(M, NULL, "none")} : AttachPolled(p)

\* Lines 711-730: resume up to the wait for INSTRCOMPL.
ResumeBegin(step) ==
    /\ Live /\ host.state = "halted"
    /\ Commit(apb_write(cortexa_regs_write_internal(ResumeBp0(M, step)),
                        DBGITR, Ins("mcr_iciallu", 0)))
    /\ host' = WaitHost("resume_instrcompl", step, FALSE, 0, 0, 0)
    /\ last' = Last("resume_begin", step, NULL, NULL)

\* Lines 460-476: detach up to the wait for INSTRCOMPL.
DetachBegin ==
    /\ Live /\ host.state = "halted"
    /\ Commit(apb_write(cortexa_regs_write_internal(apb_write(ZeroBcrs(M, 0), DBGVCR, 0)),
                        DBGITR, Ins("mcr_iciallu", 0)))
    /\ host' = WaitHost("detach_instrcompl", FALSE, FALSE, 0, 0, 0)
    /\ last' = Last("detach_begin", NULL, NULL, NULL)

\* One pass of the loops of lines 480-483 and 734-737, and what follows the
\* loop when the pass ends it: lines 486-489 and 740-745.
WaitInstrcompl ==
    /\ Live /\ host.state \in {"resume_instrcompl", "detach_instrcompl"}
    /\ IF ~WaitOver(apb_read(M, DBGDSCR).INSTRCOMPL, host.expired)
       THEN UNCHANGED vars
       ELSE IF host.state = "resume_instrcompl"
       THEN /\ Commit(ResumeDscr(M, host.step))
            /\ host' = [host EXCEPT !.state = "resume_restart"]
            /\ last' = Last("resume_dscr", host.step, NULL, NULL)
       ELSE /\ Commit(apb_write(DetachDscr(M), DBGDRCR, BitOr(DBGDRCR_CSE, DBGDRCR_RRQ)))
            /\ host' = [host EXCEPT !.state = "detached"]
            /\ last' = Last("detach_return", NULL, NULL, [expired |-> host.expired])

\* Lines 749-752: m is the target after the write of line 748.
RestartPassed(m) ==
    /\ Commit(m)
    /\ host' = [host EXCEPT !.drcr = IF @ < 2 THEN @ + 1 ELSE @,
                            !.state = IF WaitOver(apb_read(m, DBGDSCR).RESTARTED,
                                                  host.expired)
                                      THEN "running" ELSE @]
    /\ last' = Last("resume_restart", host.step, NULL, NULL)

\* One pass of the do-while loop of lines 747-752.
ResumeRestart ==
    /\ Live /\ host.state = "resume_restart"
    /\ RestartPassed(apb_write(M, DBGDRCR, BitOr(DBGDRCR_CSE, DBGDRCR_RRQ)))

\* platform_timeout_is_expired becomes true.
TimeoutExpires ==
    /\ host.state \in WaitStates \ {"attach_wait"} /\ ~host.expired
    /\ host' = [host EXCEPT !.expired = TRUE]
    /\ UNCHANGED <<priv, dbg, core, mem, bw_list, target_list, srst,
                   crash_watchdog_target, fate, last>>

\* The core answers the halt request of the attach, if it ever does.
SlaveHalts ==
    /\ host.state = "attach_wait" /\ dbg.hrq /\ ~dbg.dscr.HALTED /\ ~srst
    /\ Commit(HaltOnRequest(M))
    /\ UNCHANGED <<host, last>>

\* halt_request and halt_poll of the running target, until it has halted.
WaitHalt ==
    /\ Live /\ host.state = "running"
    /\ \E p \in {cortexa_halt_poll(HaltOnRequest(cortexa_halt_request(M, "none")),
                                    "watch", "none")} :
           /\ Commit(p.m)
           /\ host' = [host EXCEPT !.state = IF p.v = "RUNNING" THEN @ ELSE "halted"]
           /\ last' = Last("halt", NULL, p.v, NULL)

NextWait ==
    \/ AttachBegin
    \/ AttachPoll
    \/ SlaveHalts
    \/ \E step \in BOOLEAN : ResumeBegin(step)
    \/ DetachBegin
    \/ WaitInstrcompl
    \/ ResumeRestart
    \/ TimeoutExpires
    \/ WaitHalt
    \/ \E v \in BOOLEAN : SrstLine(v)
    \/ SlaveStep("seq")

\* The controlling task goes on through its timed loops and the timeout of a
\* call expires.
SpecWait ==
    /\ InitAttach /\ [][NextWait]_vars
    /\ WF_vars(WaitInstrcompl) /\ WF_vars(ResumeRestart) /\ WF_vars(TimeoutExpires)

(* ---- cortexa_reset, one stage at a time ---- *)
\* While the controlling task is inside cortexa_reset, host.state names the
\* stage it has reached, host.dbgvcr is the local dbgvcr of line 586 and
\* host.entry the target the call found.
ResetHost(state, dbgvcr, entry) ==
    [state |-> state, buf |-> <<>>, at_halt |-> NULL, rt |-> 0, step |-> FALSE,
     dbgvcr |-> dbgvcr, entry |-> entry]

\* The firmware and the polls while cortexa_reset steps.
ResetEnv == [kind |-> "seq", e |-> "none"]

\* Lines 586-593.
ResetBegin ==
    /\ Live /\ host.state = "halted"
    /\ Commit(apb_write(target_mem_write32(target_mem_write32(M, WDT_DISABLE, 305419896),
                                           WDT_DISABLE, -2023406815),
                        DBGVCR, DBGVCR_R))
    /\ host' = ResetHost("reset_slave", apb_read(M, DBGVCR), M)
    /\ last' = Last("reset_begin", NULL, NULL, NULL)

\* Lines 596-627: the slave core is reset and traps, the cache is read, the
\* traps are taken off.
ResetTrap ==
    /\ Live /\ host.state = "reset_slave"
    /\ Commit(apb_write(cortexa_regs_read_internal(SlaveReset(M)), DBGVCR, 0))
    /\ host' = [host EXCEPT !.state = "reset_step1"]
    /\ last' = Last("reset_trap", NULL, NULL, [pc |-> core.r[15]])

\* Line 628.
ResetFirstStep ==
    /\ Live /\ host.state = "reset_step1"
    /\ \E s \in {step_one_instruction(M, ResetEnv)} :
           /\ Commit(IF s.m.fate = "ok" /\ ~s.v THEN [s.m EXCEPT !.fate = "assert"] ELSE s.m)
           /\ last' = Last("reset_step", 1, s.v, [vcr |-> dbg.vcr])
    /\ host' = [host EXCEPT !.state = "reset_step2"]

\* Lines 629-632.
ResetLastStep ==
    /\ Live /\ host.state = "reset_step2"
    /\ \E s \in {step_one_instruction(M, ResetEnv)} :
           /\ Commit(ResetEnd(s, host.dbgvcr))
           /\ last' = Last("reset_step", 2, s.v,
                           [vcr |-> dbg.vcr, dbgvcr |-> host.dbgvcr, entry |-> host.entry])
    /\ host' = [InitHost EXCEPT !.state = "halted"]

NextReset ==
    \/ Attach(Prompt)
    \/ Detach
    \/ HaltRequest("none")
    \/ HaltPoll("none")
    \/ Resume(FALSE)
    \/ \E bw \in RunRequests : BreakwatchSet(bw)
    \/ \E kind \in {"seq", "dabort"} : SlaveStep(kind)
    \/ ResetBegin
    \/ ResetTrap
    \/ ResetFirstStep
    \/ ResetLastStep

SpecReset == InitRun /\ [][NextReset]_vars

(* ---- the halt wait of step_one_instruction, one poll at a time ---- *)
\* While the controlling task is in the do-while loop of lines 578-580,
\* host.state is "reset_poll1" (first step) or "reset_poll2" (second step).
StepPollStates == {"reset_poll1", "reset_poll2"}

\* Line 576: the resume of a step of cortexa_reset.
ResetStepResume ==
    /\ Live /\ host.state \in {"reset_step1", "reset_step2"}
    /\ Commit(cortexa_halt_resume(M, TRUE))
    /\ host' = [host EXCEPT !.state = IF @ = "reset_step1" THEN "reset_poll1"
                                      ELSE "reset_poll2"]
    /\ last' = Last("step_resume", NULL, NULL, NULL)

\* One pass of the do-while loop of lines 578-580 up to the test of HALTED
\* in cortexa_halt_poll (lines 658-668); e is the exception the read of
\* DBGDSCR ends with.  A pass that sees HALTED goes on in ResetStepHalted.
ResetStepPoll(e) ==
    /\ Live /\ host.state \in StepPollStates
    /\ IF e = "EXCEPTION_TIMEOUT" \/ ~apb_read(M, DBGDSCR).HALTED
       THEN /\ UNCHANGED host
            /\ last' = Last("step_poll", e, "RUNNING", NULL)
       ELSE /\ host' = [host EXCEPT !.state = IF @ = "reset_poll1" THEN "reset_read1"
                                             ELSE "reset_read2"]
            /\ last' = Last("step_poll", e, "HALTED", NULL)
    /\ UNCHANGED <<priv, dbg, core, mem, bw_list, target_list, srst,
                   crash_watchdog_target, fate>>

\* The rest of the pass that saw HALTED (lines 670-703 of cortexa_halt_poll),
\* the end of the loop, and lines 628-632 of cortexa_reset: the assert, and
\* after the second step the restore of DBGVCR.
ResetStepHalted ==
    /\ Live /\ host.state \in {"reset_read1", "reset_read2"}
    /\ \E p \in {cortexa_halt_poll(M, NULL, "none")} :
           /\ IF host.state = "reset_read1"
              THEN /\ Commit(IF p.m.fate = "ok" /\ p.v # "BREAKPOINT"
                             THEN [p.m EXCEPT !.fate = "assert"] ELSE p.m)
                   /\ host' = [host EXCEPT !.state = "reset_step2"]
              ELSE /\ Commit(ResetEnd(Ret(p.m, p.v = "BREAKPOINT"), host.dbgvcr))
                   /\ host' = [InitHost EXCEPT !.state = "halted"]
           /\ last' = Last("step_halted", NULL, p.v, NULL)

NextStepWait ==
    \/ Attach(Prompt)
    \/ HaltRequest("none")
    \/ HaltPoll("none")
    \/ Resume(FALSE)
    \/ \E bw \in RunRequests : BreakwatchSet(bw)
    \/ SlaveStep("seq")
    \/ ResetBegin
    \/ ResetTrap
    \/ ResetStepResume
    \/ \E e \in {"none", "EXCEPTION_TIMEOUT"} : ResetStepPoll(e)
    \/ ResetStepHalted

\* The controlling task goes on polling; nothing obliges the core to halt
\* or the debug port to answer.
SpecStepWait ==
    /\ InitRun /\ [][NextStepWait]_vars
    /\ WF_vars(\E e \in {"none", "EXCEPTION_TIMEOUT"} : ResetStepPoll(e))

(* ---- reset of a target with a watchpoint on the trampoline ---- *)
\* A read watchpoint on the jump address of the trampoline, a write
\* watchpoint in the data window.
TrampolineRequests == { Bw("WATCH_READ", 8, 4), Bw("WATCH_WRITE", MEM_BASE, 4) }

NextResetWatch ==
    \/ Attach(Prompt)
    \/ HaltRequest("none")
    \/ HaltPoll("none")
    \/ Resume(FALSE)
    \/ \E bw \in TrampolineRequests : BreakwatchSet(bw)
    \/ \E k \in 1..MaxBw : BreakwatchClear(k)
    \/ SlaveStep("seq")
    \/ ResetBegin
    \/ ResetTrap
    \/ ResetFirstStep
    \/ ResetLastStep

SpecResetWatch == InitRun /\ [][NextResetWatch]_vars

(* ---- the core-file builder ---- *)
\* The builder's host: the corefile cf, the file core_dump wrote, and the
\* core_note_add calls made so far.
CoreHost(state, cf, file, calls) ==
    [state |-> state, cf |-> cf, file |-> file, calls |-> calls]

\* The regions a caller adds, <<base, size>>, all with p_type PT_LOAD as at
\* line 149.
PhSegs == { Sections[1], Sections[2] }

\* The notes a caller adds: name, type, data and len.
NoteCalls ==
    { [name |-> <<67, 79, 82, 69>>, type |-> NT_AUXV, len |-> 8,
       data |-> <<16, 0, 0, 0, 0, 80, 0, 0>>],                  \* "CORE"
      [name |-> <<76, 73, 78, 85, 88>>, type |-> NT_ARM_VFP, len |-> 5,
       data |-> <<1, 2, 3, 4, 5>>],                             \* "LINUX"
      [name |-> <<65, 66, 67>>, type |-> NT_PRSTATUS, len |-> 0,
       data |-> <<>>] }                                         \* "ABC"

\* The outcomes of a store past the end of an array.
UbOutcomes == {"kept", "lost"}

CoreNew ==
    /\ fate = "ok" /\ host.state \in {"detached", "freed"}
    /\ host' = CoreHost("building", core_new(EM_ARM), <<>>, <<>>)
    /\ last' = Last("core_new", EM_ARM, NULL, NULL)
    /\ UNCHANGED <<priv, dbg, core, mem, bw_list, target_list, srst,
                   crash_watchdog_target, fate>>

CoreAddPh(seg, ub) ==
    /\ fate = "ok" /\ host.state = "building" /\ host.cf.ehdr.e_phnum < MaxPh
    /\ \E cf \in {core_add_ph(host.cf, PT_LOAD, seg[1], <<"mem", seg[1]>>, seg[2], ub)} :
           /\ host' = [host EXCEPT !.cf = cf]
           /\ fate' = IF cf.overrun THEN "array overrun" ELSE fate
    /\ last' = Last("core_add_ph", seg, NULL, NULL)
    /\ UNCHANGED <<priv, dbg, core, mem, bw_list, target_list, srst,
                   crash_watchdog_target>>

CoreNoteAdd(n) ==
    /\ fate = "ok" /\ host.state = "building" /\ Len(host.calls) < MaxNotes
    /\ host' = [host EXCEPT !.cf = core_note_add(@, n.name, n.type, n.data, n.len),
                            !.calls = Append(@, n)]
    /\ last' = Last("core_note_add", n, NULL, [before |-> host.cf])
    /\ UNCHANGED <<priv, dbg, core, mem, bw_list, target_list, srst,
                   crash_watchdog_target, fate>>

CoreDump(ub) ==
    /\ fate = "ok" /\ host.state = "building"
    /\ \E d \in {core_dump(host.cf, ub)} :
           /\ host' = [host EXCEPT !.state = "dumped", !.cf = d.m, !.file = d.v]
           /\ fate' = IF d.m.overrun THEN "array overrun" ELSE fate
    /\ last' = Last("core_dump", NULL, NULL, [before |-> host.cf])
    /\ UNCHANGED <<priv, dbg, core, mem, bw_list, target_list, srst,
                   crash_watchdog_target>>

CoreFree ==
    /\ fate = "ok" /\ host.state \in {"building", "dumped"}
    /\ host' = CoreHost("freed", NULL, <<>>, <<>>)
    /\ last' = Last("core_free", NULL, NULL, NULL)
    /\ UNCHANGED <<priv, dbg, core, mem, bw_list, target_list, srst,
                   crash_watchdog_target, fate>>

NextCore ==
    \/ CoreNew
    \/ \E seg \in PhSegs, ub \in UbOutcomes : CoreAddPh(seg, ub)
    \/ \E n \in NoteCalls : CoreNoteAdd(n)
    \/ \E ub \in UbOutcomes : CoreDump(ub)
    \/ CoreFree

SpecCore == InitMemAccess /\ [][NextCore]_vars

(* ---- the core dump of the halted target ---- *)
\* What the stack holds past regs[]: see DumpFregs.
StackOutcomes == {"cache", "stack"}

ZynqCoreDump(ub) ==
    /\ Live /\ host.state = "halted"
    /\ Commit(zynq_amp_core_dump(M))
    /\ last' = Last("zynq_amp_core_dump", ub, zynq_amp_core_file(M, ub),
                    [cache |-> priv.reg_cache])
    /\ UNCHANGED host

NextDump ==
    \/ Attach(Prompt)
    \/ HaltRequest("none")
    \/ HaltPoll("none")
    \/ \E step \in BOOLEAN : Resume(step)
    \/ SlaveStep("seq")
    \/ \E ub \in StackOutcomes : ZynqCoreDump(ub)

SpecDump == InitRun /\ [][NextDump]_vars

(* ---- address translation ---- *)
\* Virtual addresses, over the 32 bits: the ends, page ends, the data window,
\* the page that faults, addresses with bit 31 set.
VaInputs ==
    { 0, 4095, 4096, MEM_BASE + 291, MEM_BASE + 2 * PAGE + 4, 2147483647,
      -2147483647, -1 }

\* Values of PAR, over the 32 bits, bit 0 set and clear.
ParInputs == { 0, 1, 4095, 4096 + PAR_ATTR, PAR_FAULT, 2147479552, -4096, -1 }

\* va_to_pa with the translation of the model's page table.
VaToPa(va) ==
    /\ Live /\ host.state = "halted"
    /\ \E pa \in {va_to_pa(M, va)} :
           /\ Commit(pa.m)
           /\ last' = Last("va_to_pa", va, pa.v,
                           [par |-> pa.m.core.par, fault |-> priv.mmu_fault])
    /\ UNCHANGED host

\* va_to_pa when the page table makes ATS1CPR leave par in PAR.
VaToPaOf(va, par) ==
    /\ Live /\ host.state = "halted"
    /\ \E pa \in {ParToPa(read_gpreg([apb_write(apb_write(write_gpreg(M, 0, va),
                                                           DBGITR, Ins("mcr_ats1cpr", 0)),
                                                 DBGITR, Ins("mrc_par", 0))
                                            EXCEPT !.core.par = par, !.core.r[0] = par],
                                        0),
                             va)} :
           /\ Commit(pa.m)
           /\ last' = Last("va_to_pa", va, pa.v, [par |-> par, fault |-> priv.mmu_fault])
    /\ UNCHANGED host

NextVa ==
    \/ Attach(Prompt)
    \/ CheckError
    \/ \E va \in VaInputs : VaToPa(va)
    \/ \E va \in VaInputs, par \in ParInputs : VaToPaOf(va, par)

SpecVa == InitMemAccess /\ [][NextVa]_vars

(* ---- watchpoints: kinds, sizes and byte lanes ---- *)
WatchRequests ==
    { Bw("WATCH_WRITE", 536870914, 2), Bw("WATCH_READ", MEM_BASE, 4),
      Bw("WATCH_ACCESS", MEM_BASE + 1, 1), Bw("WATCH_READ", MEM_BASE + 3, 1),
      Bw("WATCH_WRITE", MEM_BASE + 4, 1), Bw("WATCH_ACCESS", MEM_BASE + 2, 2),
      Bw("WATCH_WRITE", MEM_BASE, 8), Bw("BREAK_HARD", FW_ENTRY, 4) }

NextWatch ==
    \/ Attach(Prompt)
    \/ Detach
    \/ \E bw \in WatchRequests : BreakwatchSet(bw)
    \/ \E k \in 1..MaxBw : BreakwatchClear(k)

SpecWatch == InitMemAccess /\ [][NextWatch]_vars

(* ---- breakpoint slots over attach, set, clear, step, resume and detach ---- *)
NextSlots ==
    \/ Attach(Prompt)
    \/ Detach
    \/ HaltRequest("none")
    \/ HaltPoll("none")
    \/ \E step \in BOOLEAN : Resume(step)
    \/ \E bw \in RunRequests : BreakwatchSet(bw)
    \/ \E k \in 1..MaxBw : BreakwatchClear(k)
    \/ SlaveStep("seq")

SpecSlots == InitAttach /\ [][NextSlots]_vars

(* ---- memory writes: no bytes, bytes, words, across the window's end ---- *)
WriteRequests ==
    { <<MEM_BASE, <<>>>>, <<MEM_BASE + 1, <<7, 8, 9>>>>, <<MEM_BASE + 4, <<5, 6>>>>,
      <<MEM_BASE + 4 * MemWords - 2, <<5, 6, 7, 8, 9>>>>,
      <<MEM_BASE, <<17, 18, 19, 20, 21, 22, 23, 200>>>>,
      <<MEM_BASE + 4 * (MemWords - 1), <<1, 2, 3, 4, 5, 6, 7, 8>>>> }

NextWrite ==
    \/ Attach(Prompt)
    \/ CheckError
    \/ \E a \in WriteRequests : MemWrite(a)

SpecWrite == InitMemAccess /\ [][NextWrite]_vars

(***************************************************************************)
(* Properties.                                                             *)
(***************************************************************************)

\* C1: after a successful set, a clear of the same record leaves the in-use
\* mask bit of the record's slot clear and the slot's control register
\* (DBGBCR(i) for a breakpoint, DBGWCR(i) for a watchpoint) holding 0,
\* whatever sets and clears came before.
C1_ClearFreesSlot ==
    (last.op = "clear" /\ last.ret = 0) =>
        LET i == last.arg.reserved
        IN  IF last.arg.type \in WatchTypes
            THEN ~MaskBit(priv.hw_watchpoint_mask, i) /\ dbg.wcr[i] = 0
            ELSE ~MaskBit(priv.hw_breakpoint_mask, i) /\ dbg.bcr[i] = 0

\* A watchpoint that was set in slot 1 while slot 0 stays in use is cleared.
C1_Witness ==
    /\ last.op = "clear" /\ last.ret = 0
    /\ last.arg.type \in WatchTypes /\ last.arg.reserved = 1
    /\ MaskBit(priv.hw_watchpoint_mask, 0)

\* C2: the in-use slots of each kind lie in [0, max), max being the field of
\* DBGDIDR plus 1, and a successful set takes the lowest slot of its kind
\* that was free and stores its index in the record's reserved field.
C2_SlotsInRange ==
    /\ priv.hw_breakpoint_max = ((dbg.didr \div 16777216) % 16) + 1
    /\ priv.hw_watchpoint_max = ((dbg.didr \div 268435456) % 16) + 1
    /\ priv.hw_breakpoint_mask \in 0..(2 ^ priv.hw_breakpoint_max - 1)
    /\ priv.hw_watchpoint_mask \in 0..(2 ^ priv.hw_watchpoint_max - 1)
    /\ (last.op = "set" /\ last.ret = 0) =>
            LET w == last.arg.type \in WatchTypes
                before == IF w THEN last.aux.wmask ELSE last.aux.bmask
                after == IF w THEN priv.hw_watchpoint_mask ELSE priv.hw_breakpoint_mask
                i == last.arg.reserved
            IN  /\ ~MaskBit(before, i)
                /\ \A j \in 0..(i - 1) : MaskBit(before, j)
                /\ after = before + 2 ^ i
                /\ bw_list[1] = last.arg

\* A breakpoint set while slot 0 is in use gets slot 1.
C2_Witness ==
    /\ last.op = "set" /\ last.ret = 0
    /\ last.arg.type = "BREAK_HARD" /\ last.arg.reserved = 1
    /\ MaskBit(last.aux.bmask, 0)

\* C3: after a halt_poll that reported the halt, regs_read(buf), regs_write(buf)
\* and halt_resume leave r0-r14, the resume address, CPSR, FPSCR and d0-d15
\* as they were at the halt, although the shuttle uses r0, r1 and r13 in
\* between; the cached PC is the PC read in debug state minus 4 when CPSR.T
\* is set and minus 8 otherwise.
C3_RoundTrip ==
    /\ (last.op = "halt_poll" /\ last.ret \notin {"RUNNING", "ERROR"}) =>
            /\ priv.reg_cache = host.at_halt
            /\ priv.reg_cache.r[15] =
                    (last.aux.pc + (IF BitAnd(host.at_halt.cpsr, CPSR_THUMB) # 0 THEN 4 ELSE 8))
                    - (IF BitAnd(priv.reg_cache.cpsr, CPSR_THUMB) # 0 THEN 4 ELSE 8)
    /\ (last.op = "resume" /\ last.aux.rt = 3) => Arch(core) = last.aux.at_halt

\* A Thumb-state core resumes after the round trip, the shuttle having left
\* other values in r0 and r1 at the time of regs_write.
C3_Witness ==
    /\ last.op = "resume" /\ last.aux.rt = 3
    /\ BitAnd(core.cpsr, CPSR_THUMB) # 0
    /\ ~dbg.dscr.HALTED
    /\ core.r[0] = 100 /\ core.r[1] = 101 /\ core.r[13] = 113

\* The halt_poll that reports the halt after a halt_resume(step = TRUE).
StepHalt ==
    last.op = "halt_poll" /\ last.aux.step /\ last.ret \notin {"RUNNING", "ERROR"}

\* C4 as stated: after a single step the cached PC is the previous cached PC
\* plus 2 when CPSR.T is set and plus 4 otherwise.
C4_Original ==
    StepHalt =>
        priv.reg_cache.r[15] =
            last.aux.prev_pc + (IF BitAnd(priv.reg_cache.cpsr, CPSR_THUMB) # 0 THEN 2 ELSE 4)

\* C4, corrected: after a single step the cached PC is the address of the
\* instruction the core executes next.  When the step's comparator or a
\* breakpoint ended it, the cached PC is the previous one plus 2 (Thumb) or
\* plus 4 (ARM) only when the instruction the core executed last was a
\* 16-bit Thumb or an ARM instruction that does not branch; it is the
\* previous one plus 4 after a 32-bit Thumb instruction, the branch target
\* after a branch, and the previous one when nothing was executed.
C4_StepToNextInstruction ==
    StepHalt =>
        LET pc == priv.reg_cache.r[15]
            prev == last.aux.prev_pc
            thumb == BitAnd(priv.reg_cache.cpsr, CPSR_THUMB) # 0
        IN  /\ pc = last.aux.pc
            /\ last.aux.moe = BKPT_MOE =>
                /\ last.aux.executed = 0 => pc = prev
                /\ (last.aux.executed > 0 /\ last.aux.ins = "seq") =>
                        pc = prev + (IF thumb THEN 2 ELSE 4)
                /\ (last.aux.executed > 0 /\ last.aux.ins = "seq32") => pc = prev + 4
                /\ (last.aux.executed > 0 /\ last.aux.ins = "b") => pc = FW_ENTRY

\* A step over one 16-bit Thumb instruction.
C4_Witness ==
    /\ StepHalt /\ last.aux.moe = BKPT_MOE
    /\ last.aux.executed = 1 /\ last.aux.ins = "seq"
    /\ BitAnd(priv.reg_cache.cpsr, CPSR_THUMB) # 0
    /\ priv.reg_cache.r[15] = last.aux.prev_pc + 2

\* C5: mmu_fault is a sticky latch that check_error reads and clears in one
\* operation: it is set exactly when a translation or a memory access has
\* faulted since the last check_error (attach calls check_error), so
\* check_error returns true exactly then, and a check_error that follows a
\* check_error returns false.
C5_FaultLatch ==
    /\ priv.mmu_fault = dbg.fault_ev
    /\ last.op = "check_error" =>
            /\ last.ret = last.aux.faulted
            /\ ~priv.mmu_fault
            /\ last.aux.after_check => last.ret = FALSE
    /\ (last.op = "attach" /\ last.ret) => ~priv.mmu_fault

\* check_error reports a fault.
C5_Witness == last.op = "check_error" /\ last.ret = TRUE /\ last.aux.faulted

\* C10: when cortexa_halt_poll reads DBGDSCR with HALTED set, MOE = HALT_REQ
\* gives REQUEST; MOE = WATCH_ASYNC or WATCH_SYNC gives WATCHPOINT, with the
\* record's address in *watch, when exactly one watch record is in the list
\* and BREAKPOINT when none or more than one is; every other MOE gives
\* BREAKPOINT.
C10_HaltReason ==
    (last.op = "halt_poll" /\ last.arg = "none" /\ last.aux.hw_halted) =>
        LET bw == last.aux.bw
            ws == {k \in DOMAIN bw : bw[k].type \in {"WATCH_READ", "WATCH_WRITE", "WATCH_ACCESS"}}
        IN  IF last.aux.moe = DBGDSCR_MOE_HALT_REQ THEN last.ret = "REQUEST"
            ELSE IF last.aux.moe \in {DBGDSCR_MOE_WATCH_ASYNC, DBGDSCR_MOE_WATCH_SYNC}
            THEN IF Cardinality(ws) = 1
                 THEN /\ last.ret = "WATCHPOINT"
                      /\ \E k \in ws : last.aux.watch = <<bw[k].addr>>
                 ELSE last.ret = "BREAKPOINT"
            ELSE last.ret = "BREAKPOINT"

\* A watchpoint halt with two watch records in the list.
C10_Witness ==
    /\ last.op = "halt_poll" /\ last.aux.hw_halted
    /\ last.aux.moe = DBGDSCR_MOE_WATCH_SYNC
    /\ Len(last.aux.bw) = 2
    /\ \A k \in DOMAIN last.aux.bw : last.aux.bw[k].type \in WatchTypes
    /\ last.ret = "BREAKPOINT"

\* C6: in every crash_watchdog_poll, after a halt_poll that reports RUNNING
\* or ERROR none of zynq_amp_core_dump, target_reset and target_halt_resume
\* is called; after one that reports REQUEST, STEPPING, WATCHPOINT, FAULT or
\* BREAKPOINT each is called once, in that order, resume with step = false,
\* before the poll returns.
C6_DumpResetResume ==
    (last.op = "wd_poll" /\ fate = "ok") =>
        LET calls == last.aux.calls
            polls == {i \in DOMAIN calls : calls[i] = "halt_poll"}
            k == CHOOSE i \in polls : TRUE
            rest == SubSeq(calls, k + 1, Len(calls))
        IN  /\ Cardinality(polls) = 1
            /\ last.ret \in {"RUNNING", "ERROR"} => rest = <<>>
            /\ last.ret \in {"REQUEST", "STEPPING", "WATCHPOINT", "FAULT", "BREAKPOINT"} =>
                    rest = <<"core_dump", "reset", "resume(false)">>
            /\ last.ret \in Reasons

\* A poll finds the slave halted and dumps, resets and resumes.
C6_Witness ==
    /\ last.op = "wd_poll" /\ fate = "ok" /\ last.ret = "BREAKPOINT"
    /\ last.aux.calls = <<"halt_poll", "core_dump", "reset", "resume(false)">>

\* A poll of the attached watchdog that finds the slave halted by the vector
\* catch of a data abort.
DataAbortPoll ==
    /\ last.op = "wd_poll" /\ last.arg.e = "none" /\ last.aux.entry # NULL
    /\ last.aux.hw_halted /\ last.aux.moe = VCATCH_MOE /\ last.aux.pc = ABORT_VECTOR

\* C7 as stated: a halt by a data abort reaches the watchdog as FAULT.
C7_Original == DataAbortPoll => last.ret = "FAULT"

\* C7, corrected: a halt by a data abort (vector catch) reaches the watchdog
\* as BREAKPOINT; core_dump, reset and resume(false) are then called once
\* each and leave the slave running at the firmware's entry, and the poll
\* that follows with the slave not having halted again observes RUNNING.
C7_DataAbortCycle ==
    /\ DataAbortPoll =>
            /\ last.ret = "BREAKPOINT" /\ fate = "ok"
            /\ last.aux.calls = <<"halt_poll", "core_dump", "reset", "resume(false)">>
            /\ ~dbg.dscr.HALTED /\ core.r[15] = FW_ENTRY
    /\ (last.op = "wd_poll" /\ last.aux.after_crash /\ last.arg.e = "none") =>
            last.ret = "RUNNING" /\ last.aux.calls = <<"halt_poll">>

\* The poll that follows the cycle of a data abort.
C7_Witness ==
    /\ last.op = "wd_poll" /\ last.aux.after_crash /\ last.ret = "RUNNING"
    /\ core.lastins = "mov_pc_r0" /\ core.r[15] = FW_ENTRY

\* C8: crash_watchdog_poll calls target_attach_n exactly when its stored
\* handle is null, and then resumes with step = false before it polls; a
\* non-null handle is kept by every poll that does not report ERROR and is
\* null only when the target is gone; a bus error in halt_poll frees the
\* target list, returns ERROR and, through the destroy callback, nulls the
\* handle, so that the next poll calls target_attach_n again.
C8_StoredHandle ==
    /\ last.op = "wd_poll" =>
            LET calls == last.aux.calls
            IN  /\ (calls[1] = "attach_n") <=> (last.aux.entry = NULL)
                /\ \A i \in DOMAIN calls : calls[i] = "attach_n" => i = 1
                /\ (last.aux.entry = NULL /\ Len(calls) > 1) =>
                        /\ calls[2] = "resume(false)"
                        /\ Len(calls) > 2 /\ calls[3] = "halt_poll"
                /\ (last.aux.entry = NULL /\ fate = "ok") => Len(calls) > 2
                /\ (last.aux.entry # NULL /\ last.ret # "ERROR") =>
                        crash_watchdog_target = last.aux.entry
                /\ last.ret = "ERROR" =>
                        /\ target_list = <<>> /\ crash_watchdog_target = NULL
                        /\ calls[Len(calls)] = "halt_poll"
    /\ crash_watchdog_target # NULL =>
            target_list # <<>> /\ target_list[1].tc = "crash_watchdog_controller"

\* The poll after one that reported ERROR calls target_attach_n.
C8_Witness ==
    /\ last.op = "wd_poll" /\ last.aux.after_error
    /\ last.aux.entry = NULL /\ last.aux.calls[1] = "attach_n"

\* C9 as stated: cortexa_attach returns false, DBGVCR, the BCRs and SRST left
\* alone, when no poll saw the halt or SRST stayed asserted, and true only
\* after a poll saw the halt.
C9_Original ==
    (last.op = "attach" /\ fate = "ok") =>
        /\ (last.aux.srst \/ ~last.aux.halted) =>
                /\ ~last.ret
                /\ dbg.vcr = last.aux.vcr /\ dbg.bcr = last.aux.bcr /\ srst = last.aux.srst
        /\ last.ret => last.aux.halted

\* C9, corrected: cortexa_attach returns false, DBGVCR, the BCRs and SRST left
\* alone, exactly when SRST read deasserted and all 10 polls returned
\* RUNNING.  It returns true, DBGVCR = SU|SP|SD, every BCR 0 and SRST
\* released, when a poll saw the halt and also when SRST read asserted: then
\* it polls not once and attaches under reset.
C9_AttachResult ==
    (last.op = "attach" /\ fate = "ok") =>
        /\ ~last.ret <=> (~last.aux.srst /\ last.aux.polls = 10 /\ ~last.aux.halted)
        /\ ~last.ret =>
                dbg.vcr = last.aux.vcr /\ dbg.bcr = last.aux.bcr /\ srst = last.aux.srst
        /\ last.ret =>
                /\ dbg.vcr = 26 /\ \A i \in DOMAIN dbg.bcr : dbg.bcr[i] = 0
                /\ ~srst /\ priv.hw_breakpoint_mask = 0
                /\ last.aux.halted \/ last.aux.srst
        /\ last.aux.srst => last.ret /\ last.aux.polls = 0 /\ ~last.aux.halted
        /\ last.aux.halted => last.aux.polls \in 1..10

\* An attach gives up after 10 polls and leaves a stale breakpoint enabled.
C9_Witness ==
    /\ last.op = "attach" /\ fate = "ok" /\ ~last.ret
    /\ last.aux.polls = 10 /\ dbg.bcr[0] = STALE_BCR

\* C11: a halt request or a halt poll whose APB access times out, and a halt
\* poll that reads DBGDSCR.HALTED clear, changes neither the driver's state
\* (register cache, slot masks, bcr0, bvr0, mmu_fault) nor any debug
\* register, and the caller goes on: the poll returns RUNNING, the request
\* only prints its message.
C11_TimeoutLeavesState ==
    [][((last'.op \in {"halt_request", "halt_poll"} /\ last'.arg = "EXCEPTION_TIMEOUT")
            \/ (last'.op = "halt_poll" /\ ~dbg.dscr.HALTED))
        => /\ priv' = priv /\ dbg' = dbg /\ core' = core /\ mem' = mem
           /\ bw_list' = bw_list /\ target_list' = target_list /\ fate' = "ok"
           /\ last'.op = "halt_poll" => last'.ret = "RUNNING" /\ last'.aux.watch = <<>>
           /\ last'.op = "halt_request" =>
                last'.aux.printed = <<"Timeout sending interrupt, is target in WFI?\n">>]_vars

\* The read of DBGDSCR of a halted core has timed out.
C11_Witness ==
    /\ last.op = "halt_poll" /\ last.arg = "EXCEPTION_TIMEOUT"
    /\ last.aux.hw_halted /\ last.ret = "RUNNING" /\ dbg.dscr.HALTED
    /\ ~dbg.dscr.ITREN

\* C12: no wait on a hardware bit goes on for ever when the timeout of the
\* call expires in the end: the task leaves the waits of resume and detach,
\* whether the awaited bit is ever set or not; every pass of the halt wait of
\* attach that does not end the wait takes one off tries, which stays above
\* 0, so that an attach makes at most 10 halt polls; a resume has written
\* CSE|RRQ to DBGDRCR when it returns.
C12_WaitsEnd ==
    /\ [][host.state = "attach_wait" /\ host'.state = "attach_wait" /\ host' # host
            => host'.tries = host.tries - 1 /\ host'.tries > 0]_vars
    /\ [](host.state \in WaitStates \/ last.op = "attach_return" => host.polls <= 10)
    /\ [](last.op = "resume_restart" => host.drcr >= 1)
    /\ (host.state \in {"resume_instrcompl", "resume_restart", "detach_instrcompl"})
            ~> (host.state \in {"running", "detached"})

\* A resume has returned on the timeout: the core never restarted.
C12_Witness ==
    /\ last.op = "resume_restart" /\ host.state = "running" /\ host.expired
    /\ ~dbg.dscr.RESTARTED /\ ~dbg.dscr.INSTRCOMPL /\ host.drcr >= 1

\* C13: cortexa_reset traps the slave on the reset vector and steps through
\* the trampoline: DBGVCR is R while the slave is reset, 0 during the two
\* steps, each of which ends in BREAKPOINT, and on return the value the call
\* found; on return the cached pc is the firmware's entry address, and the
\* target is the one cortexa_reset gives for the target the call found.
C13_ResetTrampoline ==
    /\ host.state = "reset_slave" => dbg.vcr = DBGVCR_R
    /\ host.state \in {"reset_step1", "reset_step2"} => dbg.vcr = 0
    /\ last.op = "reset_trap" => priv.reg_cache.r[15] = 0 /\ dbg.dscr.MOE = VCATCH_MOE
    /\ last.op = "reset_step" =>
            /\ last.ret = TRUE /\ last.aux.vcr = 0 /\ fate = "ok"
            /\ priv.reg_cache.r[15] = IF last.arg = 1 THEN 4 ELSE FW_ENTRY
            /\ last.arg = 2 =>
                    /\ dbg.vcr = last.aux.dbgvcr
                    /\ last.aux.dbgvcr = apb_read(last.aux.entry, DBGVCR)
                    /\ M = cortexa_reset(last.aux.entry, ResetEnv)

\* A reset has returned to a target that crashed into the abort vector with
\* a breakpoint set: the traps of the attach are back.
C13_Witness ==
    /\ last.op = "reset_step" /\ last.arg = 2
    /\ last.aux.entry.priv.reg_cache.r[15] = ABORT_VECTOR
    /\ last.aux.entry.bw_list # <<>>
    /\ dbg.vcr = BitOr(BitOr(DBGVCR_SU, DBGVCR_SP), DBGVCR_SD)
    /\ priv.reg_cache.r[15] = FW_ENTRY /\ core.r[15] = FW_ENTRY

\* C14: DBGDSCR.EXTDCCMODE is STALL whenever no bulk memory operation is in
\* progress: attach sets it, and every cortexa_slow_mem_read and every
\* word-aligned cortexa_slow_mem_write has switched back to STALL when it
\* returns, whether the access aborted or not; while the mode was FAST the
\* only write of DBGITR was the one block ldc (read) or stc (write), and every
\* other access was to DBGDTRTX or DBGDTRRX.
C14_StallOutsideBulk ==
    /\ host.state = "halted" => dbg.dscr.EXTDCCMODE = DBGDSCR_EXTDCCMODE_STALL
    /\ last.op = "mem_read" =>
            /\ dbg.fast_itr = 1 /\ ~dbg.fast_other
            /\ dbg.itr = Ins("ldc", 0)
    /\ (last.op = "mem_write" /\ last.arg[1] % 4 = 0 /\ Len(last.arg[2]) % 4 = 0
            /\ Len(last.arg[2]) > 0) =>
            /\ dbg.fast_itr = 1 /\ ~dbg.fast_other
            /\ dbg.itr = Ins("stc", 0)

\* A word-aligned write has aborted and has returned in stall mode.
C14_Witness ==
    /\ last.op = "mem_write" /\ last.arg[1] % 4 = 0 /\ Len(last.arg[2]) = 4
    /\ priv.mmu_fault /\ dbg.fast_itr = 1
    /\ dbg.dscr.EXTDCCMODE = DBGDSCR_EXTDCCMODE_STALL

\* The byte at address a of the memory mm.
MemByte(mm, a) == ByteOf(mm[a - (a % 4)], a % 4)

\* C15: cortexa_slow_mem_read(dst, src, len) starts the block load at
\* src & ~3, discards the first word it reads from DBGDTRTX and reads W more
\* words, W * 4 >= (src & 3) + len, so that r0 ends W + 1 words above
\* src & ~3; it copies to dst exactly the len bytes that start at offset
\* src & 3 of the W words, which are the bytes of memory at src..src+len-1.
\* For src = 0x10000003 and len = 5, W is 2 and bytes 3..7 of the two words
\* are returned.
C15_ReadWindow ==
    last.op = "mem_read" =>
        LET src == last.arg[1]
            len == last.arg[2]
            base == src - (src % 4)
            W == (core.r[0] - base) \div 4 - 1
        IN  /\ Len(last.ret) = len
            /\ (\A a \in base..(src + len + 3) : Mapped(a)) =>
                    /\ core.r[0] = base + 4 * (W + 1)
                    /\ W * 4 >= (src % 4) + len
                    /\ (src % 4) + len > (W - 1) * 4
                    /\ last.ret = [k \in 1..len |-> MemByte(mem, src + k - 1)]
            /\ (src = 268435459 /\ len = 5) =>
                    /\ W = 2
                    /\ last.ret = SubSeq(Flatten(<<mem[MEM_BASE], mem[MEM_BASE + 4]>>), 4, 8)

\* The five bytes at 0x10000003 have been read.
C15_Witness ==
    /\ last.op = "mem_read" /\ last.arg = <<268435459, 5>>
    /\ last.ret = <<4, 5, 6, 7, 8>>
    /\ core.r[0] = MEM_BASE + 12

\* The offset in the file f of what its k-th fwrite call wrote.
RECURSIVE FileOffset(_, _)
FileOffset(f, k) == IF k = 1 THEN 0 ELSE FileOffset(f, k - 1) + f[k - 1].size

\* C16: in every core file written by core_dump, e_phoff = e_ehsize; every
\* program header has p_filesz = p_memsz; the first p_offset is
\* e_ehsize + e_phnum * e_phentsize, e_phnum counting the PT_NOTE header;
\* each further p_offset is the one before plus the p_filesz before; and the
\* segments follow the program headers in program-header order, each
\* starting at its own p_offset.  Three PT_LOAD regions give e_phnum = 4 and
\* a first p_offset of 180.
C16_FileLayout ==
    (host.state = "dumped" /\ fate = "ok") =>
        LET f == host.file
            eh == f[1].data
            n == eh.e_phnum
            before == last.aux.before
        IN  /\ f[1].kind = "ehdr" /\ f[1].size = eh.e_ehsize
            /\ eh.e_phoff = eh.e_ehsize
            /\ n = Len(before.phdr) + 1 /\ Len(f) = 1 + 2 * n
            /\ \A i \in 1..n :
                    /\ f[1 + i].kind = "phdr" /\ f[1 + i].size = eh.e_phentsize
                    /\ f[1 + i].data.p_filesz = f[1 + i].data.p_memsz
                    /\ f[1 + i].data.p_offset =
                            IF i = 1 THEN eh.e_ehsize + n * eh.e_phentsize
                            ELSE f[i].data.p_offset + f[i].data.p_filesz
                    /\ f[1 + n + i].kind = "segment"
                    /\ f[1 + n + i].size = f[1 + i].data.p_filesz
                    /\ FileOffset(f, 1 + n + i) = f[1 + i].data.p_offset
                    /\ i < n => /\ f[1 + n + i].data = before.segments[i]
                                /\ f[1 + i].data.p_vaddr = before.phdr[i].p_vaddr
                                /\ f[1 + i].data.p_filesz = before.phdr[i].p_filesz
            /\ Len(before.phdr) = 3 => n = 4 /\ f[2].data.p_offset = 180

\* A file with three PT_LOAD regions and a note segment has been written.
C16_Witness ==
    /\ host.state = "dumped" /\ fate = "ok"
    /\ host.file[1].data.e_phnum = 4
    /\ host.file[2].data.p_offset = 180
    /\ host.file[5].data.p_filesz > 0
    /\ host.file[3].data.p_offset = 180 + host.file[2].data.p_filesz

\* The file f has exactly one PT_NOTE program header, the last one, whose
\* p_filesz is the size of the note blob of the builder cf and whose segment
\* is that blob.
OneNoteLast(f, cf) ==
    /\ Cardinality({i \in 1..f[1].data.e_phnum : f[1 + i].data.p_type = PT_NOTE}) = 1
    /\ f[1 + f[1].data.e_phnum].data.p_type = PT_NOTE
    /\ f[1 + f[1].data.e_phnum].data.p_filesz = cf.note_size
    /\ cf.note_size = Len(cf.note)
    /\ f[1 + 2 * f[1].data.e_phnum].data = cf.note

\* C17: every core file emitted from a builder has exactly one PT_NOTE
\* program header; it is the last program header, its p_filesz is the size
\* of the note blob and its segment is that blob, after any sequence of
\* core_add_ph and core_note_add calls followed by core_dump.
C17_OneNoteAnySequence ==
    host.state = "dumped" => OneNoteLast(host.file, last.aux.before)

\* C17, for the sequences that leave room in phdr[] and segments[] for the
\* PT_NOTE header: the file core_dump writes has exactly one PT_NOTE program
\* header, the last one, with the note blob's size and the note blob as its
\* segment.
C17_OneNoteWithinArrays ==
    (host.state = "dumped" /\ last.aux.before.ehdr.e_phnum < MAX_SEGMENTS) =>
        /\ fate = "ok"
        /\ OneNoteLast(host.file, last.aux.before)

\* A file with two regions and a blob of two notes has been written.
C17_Witness ==
    /\ host.state = "dumped" /\ fate = "ok"
    /\ host.file[1].data.e_phnum = 3 /\ Len(host.calls) = 2
    /\ host.file[4].data.p_type = PT_NOTE /\ host.file[4].data.p_filesz > 0
    /\ host.file[7].data = host.cf.note

\* x rounded up to a multiple of 4.
Pad4(x) == x + ((4 - (x % 4)) % 4)

\* The record of one note: the header, the name with its NUL and the desc,
\* each of the two zero-padded to a multiple of 4 bytes.
NoteOf(n) ==
    NoteHeader(Len(n.name) + 1, n.len, n.type)
        \o n.name \o Zeros(Pad4(Len(n.name) + 1) - Len(n.name))
        \o SubSeq(n.data, 1, n.len) \o Zeros(Pad4(n.len) - n.len)

RECURSIVE NotesOf(_)
NotesOf(calls) ==
    IF calls = <<>> THEN <<>> ELSE NoteOf(Head(calls)) \o NotesOf(Tail(calls))

\* C18: after any sequence of core_note_add calls the note blob is the
\* concatenation, in call order, of one record per call: the 12-byte header
\* {namesz = strlen(name) + 1, descsz = len, type}, the name zero-padded to a
\* multiple of 4 bytes, the desc zero-padded to a multiple of 4 bytes, each
\* padded on its own; note_size is the sum of the records' sizes
\* 12 + pad4(strlen(name) + 1) + pad4(len), so every note starts at a
\* multiple of 4, and a call leaves the notes before it unchanged.
C18_NoteBlob ==
    host.state \in {"building", "dumped"} =>
        /\ host.cf.note = NotesOf(host.calls)
        /\ host.cf.note_size = Len(host.cf.note)
        /\ \A k \in 1..Len(host.calls) :
                /\ Len(NoteOf(host.calls[k]))
                        = 12 + Pad4(Len(host.calls[k].name) + 1) + Pad4(host.calls[k].len)
                /\ Len(NotesOf(SubSeq(host.calls, 1, k))) % 4 = 0
        /\ last.op = "core_note_add" =>
                /\ SubSeq(host.cf.note, 1, last.aux.before.note_size) = last.aux.before.note
                /\ host.cf.note_size = last.aux.before.note_size + Len(NoteOf(last.arg))

\* "LINUX" with a desc of 5 bytes has been added after "ABC" with an empty desc.
C18_Witness ==
    /\ last.op = "core_note_add" /\ Len(host.calls) = 2
    /\ host.calls[1].len = 0 /\ host.calls[2].len = 5
    /\ host.cf.note_size = 16 + 28

\* The three notes of the core file of a target whose register cache is
\* cache, with the floating-point registers fregs.
DumpBlob(cache, fregs) ==
    NotesOf(<<[name |-> <<67, 79, 82, 69>>, type |-> NT_PRSTATUS, len |-> 148,
               data |-> PrstatusBytes(SIGSEGV, DumpRegs(cache))],
              [name |-> <<67, 79, 82, 69>>, type |-> NT_AUXV, len |-> 8,
               data |-> BytesOf(16) \o BytesOf(4160)],
              [name |-> <<76, 73, 78, 85, 88>>, type |-> NT_ARM_VFP, len |-> 260,
               data |-> VfpBytes(fregs)]>>)

\* C19: in the core file zynq_amp_core_dump produces, the NT_ARM_VFP note
\* (name "LINUX") carries the FPSCR of the register cache, d0..d15 equal to
\* the 16 cached doubles and d16..d31 zero; the NT_PRSTATUS note carries
\* pr_cursig = SIGSEGV and 18 words: r0..r15 of the cache, its CPSR, zero.
C19_DumpNotes ==
    last.op = "zynq_amp_core_dump" =>
        last.ret[11].data = DumpBlob(last.aux.cache, CacheFregs(last.aux.cache))

\* C19, the part the code keeps: the NT_PRSTATUS note is the first note of
\* the file's note segment and carries pr_cursig = SIGSEGV and r0..r15, CPSR
\* and a zero word from the register cache; the NT_ARM_VFP note carries
\* whatever the stack held past regs[].
C19_DumpPrstatus ==
    last.op = "zynq_amp_core_dump" =>
        /\ Len(last.ret) = 11 /\ last.ret[6].data.p_type = PT_NOTE
        /\ last.ret[11].data = DumpBlob(last.aux.cache, DumpFregs(last.aux.cache, last.arg))
        /\ SubSeq(last.ret[11].data, 1, 168)
                = NoteOf([name |-> <<67, 79, 82, 69>>, type |-> NT_PRSTATUS, len |-> 148,
                          data |-> PrstatusBytes(SIGSEGV, DumpRegs(last.aux.cache))])
        /\ SubSeq(last.ret[11].data, 33, 34) = <<SIGSEGV, 0>>
        /\ \A k \in 0..15 :
                SubSeq(last.ret[11].data, 93 + 4 * k, 96 + 4 * k)
                    = BytesOf(last.aux.cache.r[k])
        /\ SubSeq(last.ret[11].data, 157, 164)
                = BytesOf(last.aux.cache.cpsr) \o <<0, 0, 0, 0>>

\* The dump of a halted target whose cache holds the core's registers.
C19_Witness ==
    /\ last.op = "zynq_amp_core_dump" /\ last.arg = "stack"
    /\ last.aux.cache.r[1] = 101 /\ last.aux.cache.fpscr = 7
    /\ SubSeq(last.ret[11].data, 97, 100) = <<101, 0, 0, 0>>

\* C20: for every 32-bit va and every PAR read back, the low 12 bits of
\* va_to_pa(va) are those of va and its other bits are those of PAR;
\* mmu_fault is set when bit 0 of PAR is 1 and keeps its value when bit 0 of
\* PAR is 0.
C20_PageOffset ==
    last.op = "va_to_pa" =>
        /\ last.ret % 4096 = last.arg % 4096
        /\ last.ret - (last.ret % 4096) = last.aux.par - (last.aux.par % 4096)
        /\ last.aux.par % 2 = 1 => priv.mmu_fault
        /\ last.aux.par % 2 = 0 => priv.mmu_fault = last.aux.fault

\* A translation has succeeded with the latch set: the latch stays set.
C20_Witness ==
    /\ last.op = "va_to_pa" /\ last.aux.par % 2 = 0 /\ last.aux.fault
    /\ priv.mmu_fault /\ last.arg = -1 /\ last.aux.par = 2147479552
    /\ last.ret = 2147483647

\* Every slot 0..max-1 has its bit set in mask.
AllInUse(mask, max) == mask % (2 ^ max) = 2 ^ max - 1

\* C21: cortexa_breakwatch_set returns -1 when every slot of the requested
\* kind is in use, when a hard breakpoint is requested with a size other than
\* 2 or 4 and when a watchpoint is requested with a size other than 1, 2 or
\* 4; for a hard breakpoint and for a watchpoint it returns 0 in every other
\* case.
C21_SetResult ==
    (last.op = "set" /\ last.arg.type \in WatchTypes \cup {"BREAK_HARD"}) =>
        IF last.arg.type = "BREAK_HARD"
        THEN last.ret = IF AllInUse(last.aux.bmask, priv.hw_breakpoint_max)
                            \/ last.arg.size \notin {2, 4}
                        THEN -1 ELSE 0
        ELSE last.ret = IF AllInUse(last.aux.wmask, priv.hw_watchpoint_max)
                            \/ last.arg.size \notin {1, 2, 4}
                        THEN -1 ELSE 0

\* A hard breakpoint of size 3 is rejected while a slot is free.
C21_Witness ==
    /\ last.op = "set" /\ last.arg.type = "BREAK_HARD" /\ last.arg.size = 3
    /\ last.ret = -1 /\ ~AllInUse(last.aux.bmask, priv.hw_breakpoint_max)

\* The physical address the model's page table gives va.
PaOf(va) == Translate(va) - (Translate(va) % 4096) + (va % 4096)

\* C22: a successful hard-breakpoint set on slot i writes
\* DBGBVR(i) = PA & ~3 and DBGBCR(i) = BAS | EN, PA being the translation of
\* the record's address and BAS 0x1E0 for size 4, 0x60 for size 2 with
\* address bit 1 clear and 0x180 for size 2 with address bit 1 set; for slot 0
\* the same two values are stored in bcr0 and bvr0.
C22_HardSetRegs ==
    /\ bp_bas(4096, 4) = 480 /\ bp_bas(4096, 2) = 96 /\ bp_bas(4098, 2) = 384
    /\ (last.op = "set" /\ last.ret = 0 /\ last.arg.type = "BREAK_HARD") =>
            LET i == last.arg.reserved
                pa == PaOf(last.arg.addr)
                bas == IF last.arg.size = 4 THEN 480
                       ELSE IF (last.arg.addr \div 2) % 2 = 0 THEN 96 ELSE 384
            IN  /\ dbg.bvr[i] = pa - (pa % 4)
                /\ dbg.bcr[i] = bas + 1
                /\ i = 0 => priv.bvr0 = pa - (pa % 4) /\ priv.bcr0 = bas + 1

\* A halfword breakpoint on the upper half of a word of the data window,
\* which the page table maps one page up, is set in slot 0.
C22_Witness ==
    /\ last.op = "set" /\ last.ret = 0 /\ last.arg = Bw("BREAK_HARD", MEM_BASE + 6, 2)
    /\ dbg.bvr[0] = MEM_BASE + PAGE + 4 /\ priv.bcr0 = 385

\* C23: a successful watchpoint set on slot i writes DBGWVR(i) = addr & ~3
\* and DBGWCR(i) = PAC_ANY | EN | (BAS << (addr & 3)) | LSC, BAS being BYTE,
\* HALFWORD or WORD for size 1, 2 or 4 and LSC being LOAD, STORE or ANY for
\* read, write or access.  For a write watchpoint of size 2 at 0x20000002,
\* DBGWCR = PAC_ANY | EN | (BAS_HALFWORD << 2) | LSC_STORE and
\* DBGWVR = 0x20000000.
C23_WatchSetRegs ==
    (last.op = "set" /\ last.ret = 0 /\ last.arg.type \in WatchTypes) =>
        LET i == last.arg.reserved
            addr == last.arg.addr
            bas == CASE last.arg.size = 1 -> 32
                     [] last.arg.size = 2 -> 96
                     [] last.arg.size = 4 -> 480
            lsc == CASE last.arg.type = "WATCH_READ" -> 8
                     [] last.arg.type = "WATCH_WRITE" -> 16
                     [] last.arg.type = "WATCH_ACCESS" -> 24
        IN  /\ dbg.wvr[i] = addr - (addr % 4)
            /\ dbg.wcr[i] = 6 + 1 + bas * (2 ^ (addr % 4)) + lsc
            /\ last.arg = [Bw("WATCH_WRITE", 536870914, 2) EXCEPT !.reserved = i] =>
                    /\ dbg.wcr[i] = 6 + 1 + 96 * 4 + 16
                    /\ dbg.wvr[i] = 536870912

\* The write watchpoint of size 2 at 0x20000002 is set in slot 1.
C23_Witness ==
    /\ last.op = "set" /\ last.ret = 0 /\ last.arg.reserved = 1
    /\ last.arg.type = "WATCH_WRITE" /\ last.arg.addr = 536870914
    /\ dbg.wcr[1] = 407 /\ dbg.wvr[1] = 536870912


\* C24: cortexa_halt_resume(step) goes in this order: it programs DBGBVR(0)
\* and DBGBCR(0), writes the whole register cache back, issues the I-cache
\* invalidate and waits for INSTRCOMPL or the timeout; it then writes DBGDSCR
\* with INTDIS set exactly when step is and ITREN cleared, and only after
\* that writes CSE|RRQ to DBGDRCR until RESTARTED is set or the timeout has
\* expired.  No DBGITR write happens after ITREN is cleared and no restart
\* request is written before the register write-back.  The order is seen in
\* what the debug unit does with the writes of a halted core: it executes an
\* instruction only while ITREN is set and restarts the core only when ITREN
\* is clear.
C24_ResumeOrder ==
    [][/\ (host.state = "halted" /\ host'.state = "resume_instrcompl"
                /\ dbg.dscr.HALTED) =>
            /\ dbg'.bvr[0] = IF host'.step
                             THEN priv.reg_cache.r[15] - (priv.reg_cache.r[15] % 4)
                             ELSE priv.bvr0
            /\ dbg'.bcr[0] = IF host'.step
                             THEN BitOr(BitOr(DBGBCR_INST_MISMATCH,
                                              bp_bas(priv.reg_cache.r[15],
                                                     IF Thumb(priv.reg_cache) THEN 2 ELSE 4)),
                                        DBGBCR_EN)
                             ELSE priv.bcr0
            /\ Arch(core') = priv.reg_cache
            /\ dbg'.itr = Ins("mcr_iciallu", 0)
            /\ dbg'.itr_lost = dbg.itr_lost
            /\ dbg'.dscr.HALTED /\ dbg'.dscr.ITREN
            /\ dbg'.dscr.RESTARTED = dbg.dscr.RESTARTED
       /\ (host.state = "resume_instrcompl" /\ host'.state = "resume_restart") =>
            /\ dbg.dscr.INSTRCOMPL \/ host.expired
            /\ dbg' = [dbg EXCEPT !.dscr.INTDIS = host.step, !.dscr.ITREN = FALSE]
            /\ core' = core /\ priv' = priv
       /\ (host.state = "resume_restart" /\ host'.drcr # host.drcr) =>
            /\ ~dbg.dscr.ITREN /\ dbg.dscr.INTDIS = host.step
            /\ dbg'.itr = dbg.itr /\ dbg'.itr_lost = dbg.itr_lost
            /\ Arch(core') = Arch(core) /\ priv' = priv
            /\ ~dbg'.dscr.SDABORT_L
            /\ host'.state \in {"resume_restart", "running"}
            /\ host'.state = "running" <=> (dbg'.dscr.RESTARTED \/ host.expired)
       /\ (~dbg.dscr.RESTARTED /\ dbg'.dscr.RESTARTED) =>
            host.state \in {"resume_restart", "detach_instrcompl"}]_vars

\* A single step has written its restart request: the core, holding the
\* cached registers, has restarted with interrupts masked and comparator 0
\* on the instruction at the cached pc.
C24_Witness ==
    /\ last.op = "resume_restart" /\ host.state = "running" /\ host.step
    /\ dbg.dscr.RESTARTED /\ ~dbg.dscr.HALTED /\ dbg.dscr.INTDIS /\ ~dbg.dscr.ITREN
    /\ dbg.itr = Ins("mcr_iciallu", 0) /\ ~dbg.itr_lost
    /\ Arch(core) = priv.reg_cache
    /\ BitAnd(dbg.bcr[0], DBGBCR_INST_MISMATCH) # 0


\* The hard breakpoints of the list that hold slot 0.
Slot0Holders == {k \in DOMAIN bw_list : bw_list[k].type = "BREAK_HARD" /\ bw_list[k].reserved = 0}

\* C25: cortexa_halt_resume(step = true) programs slot 0 as an
\* instruction-mismatch breakpoint at the cached pc, DBGBVR(0) = pc & ~3 and
\* DBGBCR(0) = INST_MISMATCH | BAS(pc, 2 if CPSR.T else 4) | EN, and changes
\* neither bcr0 nor bvr0 nor the in-use mask; cortexa_halt_resume(step =
\* false) writes DBGBVR(0) = bvr0 and DBGBCR(0) = bcr0, so that a hard
\* breakpoint in slot 0 is armed again and slot 0 is disabled when no
\* breakpoint holds it.
C25_StepSlot0 ==
    [][(host.state = "halted" /\ host'.state = "running") =>
        LET pc == priv.reg_cache.r[15]
            bas == IF BitAnd(priv.reg_cache.cpsr, CPSR_THUMB) = 0 THEN 480
                   ELSE IF pc % 4 >= 2 THEN 384 ELSE 96
        IN  /\ priv'.bcr0 = priv.bcr0 /\ priv'.bvr0 = priv.bvr0
            /\ priv'.hw_breakpoint_mask = priv.hw_breakpoint_mask
            /\ last'.arg => /\ dbg'.bvr[0] = pc - (pc % 4)
                            /\ dbg'.bcr[0] = 4194304 + bas + 1
            /\ ~last'.arg =>
                    /\ dbg'.bvr[0] = priv.bvr0 /\ dbg'.bcr[0] = priv.bcr0
                    /\ \A k \in Slot0Holders :
                            /\ dbg'.bvr[0] = PaOf(bw_list[k].addr) - (PaOf(bw_list[k].addr) % 4)
                            /\ dbg'.bcr[0] = bp_bas(PaOf(bw_list[k].addr), bw_list[k].size) + 1
                    /\ Slot0Holders = {} => dbg'.bcr[0] % 2 = 0]_vars

\* A resume without step has found the mismatch breakpoint of a step in
\* comparator 0 and has armed the hard breakpoint that holds slot 0 again.
C25_Witness ==
    /\ last.op = "resume" /\ ~last.arg /\ last.aux.bcr = 4194304 + 480 + 1
    /\ Slot0Holders # {} /\ dbg.bcr[0] = 481 /\ dbg.bvr[0] = FW_ENTRY + 4


\* How many of the n units of size bytes at dst lie in mapped memory before
\* the first that does not.
MappedRun(dst, n, size) ==
    CHOOSE k \in 0..n :
        /\ \A j \in 0..(k - 1) : Mapped((dst + j * size) - ((dst + j * size) % 4))
        /\ k < n => ~Mapped((dst + k * size) - ((dst + k * size) % 4))

\* C26: cortexa_slow_mem_write makes no debug-register access when len is
\* 0.  With dst or len not a multiple of 4 it takes the byte path: r13 is set
\* to dst and one strb is issued per byte in ascending order, up to and
\* including the first byte after which SDABORT_L is set.  Otherwise it takes
\* the word path, which writes exactly len / 4 words to DBGDTRRX in source
\* order.  On either path an observed SDABORT_L gives a write of CSE to
\* DBGDRCR and latches mmu_fault; without an abort mmu_fault is unchanged.
C26_SlowMemWrite ==
    [][last'.op = "mem_write" =>
        LET dst == last'.arg[1]
            src == last'.arg[2]
            len == Len(src)
            n == MappedRun(dst, len, 1)
            nw == MappedRun(dst, len \div 4, 4)
        IN  IF len = 0 THEN UNCHANGED <<priv, dbg, core, mem>>
            ELSE IF dst % 4 # 0 \/ len % 4 # 0
            THEN /\ core'.r[13] = dst + n
                 /\ core'.r[0] = src[IF n < len THEN n + 1 ELSE len]
                 /\ dbg'.itr = Ins("strb", 0)
                 /\ \A a \in MEM_BASE..(MEM_BASE + 4 * MemWords - 1) :
                        MemByte(mem', a) = IF a \in dst..(dst + n - 1)
                                           THEN src[a - dst + 1] ELSE MemByte(mem, a)
                 /\ priv'.mmu_fault = (priv.mmu_fault \/ n < len)
                 /\ ~dbg'.dscr.SDABORT_L /\ dbg'.itr_lost = dbg.itr_lost
            ELSE /\ core'.r[0] = dst + 4 * nw
                 /\ core'.r[13] = core.r[13]
                 /\ dbg'.itr = Ins("stc", 0) /\ dbg'.fast_itr = 1 /\ ~dbg'.fast_other
                 /\ dbg'.dtrrx = WordOf(SubSeq(src, len - 3, len))
                 /\ \A j \in 0..(MemWords - 1) :
                        mem'[MEM_BASE + 4 * j] =
                            IF MEM_BASE + 4 * j \in dst..(dst + 4 * nw - 1)
                            THEN WordOf(SubSeq(src, MEM_BASE + 4 * j - dst + 1,
                                               MEM_BASE + 4 * j - dst + 4))
                            ELSE mem[MEM_BASE + 4 * j]
                 /\ priv'.mmu_fault = (priv.mmu_fault \/ nw < len \div 4)
                 /\ ~dbg'.dscr.SDABORT_L
                 /\ dbg'.dscr.EXTDCCMODE = DBGDSCR_EXTDCCMODE_STALL
                 /\ dbg'.itr_lost = (dbg.itr_lost \/ nw + 1 < len \div 4)]_vars

\* Five bytes have been written at the last halfword of the data window:
\* two are in memory, the third aborted and was the last one tried, and the
\* fault is latched.
C26_Witness ==
    /\ last.op = "mem_write" /\ last.arg = <<MEM_BASE + 4 * MemWords - 2, <<5, 6, 7, 8, 9>>>>
    /\ core.r[13] = MEM_BASE + 4 * MemWords /\ core.r[0] = 7
    /\ MemByte(mem, MEM_BASE + 4 * MemWords - 2) = 5
    /\ MemByte(mem, MEM_BASE + 4 * MemWords - 1) = 6
    /\ priv.mmu_fault /\ ~dbg.dscr.SDABORT_L


\* What a rejected set may not touch, the mask of the watchpoints apart.
SetFrame == <<priv.hw_breakpoint_mask, priv.bcr0, priv.bvr0,
              dbg.bvr, dbg.bcr, dbg.wvr, dbg.wcr>>

\* C27 as stated: a cortexa_breakwatch_set that returns -1 changes neither
\* hw_breakpoint_mask, hw_watchpoint_mask, bcr0, bvr0 nor any of the BVR, BCR,
\* WVR and WCR registers.
C27_RejectedSetChangesNothing ==
    [][(last'.op = "set" /\ last'.ret = -1) =>
            /\ SetFrame' = SetFrame
            /\ priv'.hw_watchpoint_mask = priv.hw_watchpoint_mask]_vars

\* C27, as far as the code goes: a cortexa_breakwatch_set that returns -1
\* changes neither hw_breakpoint_mask, bcr0, bvr0 nor any of the BVR, BCR,
\* WVR and WCR registers; it leaves hw_watchpoint_mask as it was when the
\* request is a hard breakpoint or no watchpoint slot is free, and sets the
\* bit of the lowest free slot when a watchpoint of a size other than 1, 2
\* and 4 is rejected.
C27_RejectedSetFrame ==
    [][(last'.op = "set" /\ last'.ret = -1) =>
            /\ SetFrame' = SetFrame
            /\ priv'.hw_watchpoint_mask =
                    IF last'.arg.type \in WatchTypes
                        /\ ~AllInUse(priv.hw_watchpoint_mask, priv.hw_watchpoint_max)
                    THEN priv.hw_watchpoint_mask
                            + 2 ^ FirstFree(priv.hw_watchpoint_mask, priv.hw_watchpoint_max, 0)
                    ELSE priv.hw_watchpoint_mask]_vars

\* A watchpoint of size 8 has been rejected and holds slot 0, with no
\* record in the list and DBGWCR(0) disabled.
C27_Witness ==
    /\ last.op = "set" /\ last.ret = -1 /\ last.arg.size = 8
    /\ last.aux.wmask = 0 /\ priv.hw_watchpoint_mask = 1
    /\ bw_list = <<>> /\ dbg.wcr[0] = 0


\* The target is attached: a successful attach has returned and no detach
\* has followed.
Attached == host.state \in {"halted", "running"}

\* The enable bit of a control register, the mismatch bit of DBGBCR(0).
Enabled(cr) == cr % 2 = 1
StepArmed == BitAnd(dbg.bcr[0], DBGBCR_INST_MISMATCH) # 0

\* C28: in every reachable state bcr0 has its enable bit set exactly when
\* bit 0 of hw_breakpoint_mask is set.  Between a successful attach and the
\* next detach, bit i of hw_breakpoint_mask is set exactly when DBGBCR(i) has
\* its enable bit set, for every slot i >= 1, and for slot 0 except between a
\* halt_resume(step = true) and the next halt_resume(step = false): slot 0 is
\* out of step only while DBGBCR(0) holds the mismatch breakpoint, which
\* only halt_resume(step = true) writes and which every
\* halt_resume(step = false) replaces.
C28_MaskInStep ==
    /\ [](Enabled(priv.bcr0) <=> MaskBit(priv.hw_breakpoint_mask, 0))
    /\ [](Attached =>
            /\ \A i \in 1..(priv.hw_breakpoint_max - 1) :
                    MaskBit(priv.hw_breakpoint_mask, i) <=> Enabled(dbg.bcr[i])
            /\ StepArmed \/ (MaskBit(priv.hw_breakpoint_mask, 0) <=> Enabled(dbg.bcr[0])))
    /\ [][/\ (~StepArmed /\ StepArmed') => (last'.op = "resume" /\ last'.arg)
          /\ (last'.op = "resume" /\ ~last'.arg) =>
                /\ ~StepArmed'
                /\ MaskBit(priv'.hw_breakpoint_mask, 0) <=> Enabled(dbg'.bcr[0])]_vars

\* A step has halted with a breakpoint in slot 1 and none in slot 0:
\* DBGBCR(0) still holds the enabled mismatch breakpoint of the step.
C28_Witness ==
    /\ last.op = "halt_poll" /\ last.aux.step /\ host.state = "halted"
    /\ StepArmed /\ Enabled(dbg.bcr[0]) /\ ~MaskBit(priv.hw_breakpoint_mask, 0)
    /\ MaskBit(priv.hw_breakpoint_mask, 1) /\ Enabled(dbg.bcr[1])


\* The watch records of the breakwatch list.
WatchRecords == {k \in DOMAIN bw_list : bw_list[k].type \in WatchTypes}

\* C29 as stated: cortexa_halt_poll never writes through a null watch
\* pointer, whatever the breakwatch list and the method of entry are when a
\* caller that passes NULL polls.
C29_NoNullStore == fate # "null store"

\* C29, as far as the code goes: a poll with watch = NULL stores nothing
\* unless the core has halted on a watchpoint event while the breakwatch
\* list holds a watch record.
C29_NullStoreOnlyOnWatch ==
    /\ fate = "null store" =>
            /\ dbg.dscr.MOE \in {DBGDSCR_MOE_WATCH_ASYNC, DBGDSCR_MOE_WATCH_SYNC}
            /\ WatchRecords # {}
    /\ (last.op = "reset_step" /\ WatchRecords = {}) => fate # "null store"

\* The first step of a reset has halted on the read watchpoint at 0x8 and
\* its poll has stored the record's address through the null pointer.
C29_Witness ==
    /\ last.op = "reset_step" /\ last.arg = 1 /\ fate = "null store"
    /\ dbg.dscr.MOE = DBGDSCR_MOE_WATCH_SYNC /\ dbg.dscr.HALTED
    /\ \E k \in WatchRecords : bw_list[k].addr = 8


\* C30 as stated: crash_watchdog_poll never calls target_halt_resume,
\* target_halt_poll, zynq_amp_core_dump or target_reset with a null handle:
\* a poll whose target_attach_n fails makes none of these calls and returns,
\* so that a later poll attaches again.
C30_NoCallOnNullTarget ==
    (last.op = "wd_poll" /\ last.aux.entry = NULL /\ crash_watchdog_target = NULL
        /\ last.ret # "ERROR") =>
            /\ fate = "ok"
            /\ last.aux.calls = <<"attach_n">>

\* C30, as far as the code goes: a call with a null handle is made only by
\* the poll whose target_attach_n has just failed, and it is the
\* target_halt_resume of line 23; every poll that goes on to halt_poll holds
\* a handle when it makes the call.
C30_NullCallOnlyAfterFailedAttach ==
    /\ fate = "null target" => crash_watchdog_target = NULL
    /\ (last.op = "wd_poll" /\ fate = "null target") =>
            /\ last.aux.entry = NULL /\ last.aux.calls = <<"attach_n">>
    /\ (last.op = "wd_poll" /\ Len(last.aux.calls) > 1) =>
            /\ fate # "null target"
            /\ last.aux.entry = NULL => last.aux.calls[2] = "resume(false)"

\* The slave has not halted within the ten polls of the attach:
\* target_attach_n has returned NULL and the poll has gone on to
\* target_halt_resume(NULL, false).
C30_Witness ==
    /\ last.op = "wd_poll" /\ last.arg.attach.haltAt = 11 /\ fate = "null target"
    /\ target_list # <<>> /\ crash_watchdog_target = NULL
    /\ last.aux.calls = <<"attach_n">>


\* A builder exists: core_new has returned it and core_free has not freed it.
Building == host.state \in {"building", "dumped"}

\* C31 as stated: the number of program headers of a builder never exceeds
\* MAX_SEGMENTS = 10 and no write goes past the end of phdr[] and
\* segments[], after any sequence of core_add_ph calls followed by core_dump.
C31_PhnumBounded ==
    Building => host.cf.ehdr.e_phnum <= 10 /\ ~host.cf.overrun

\* C31, as far as the code goes: e_phnum counts the core_add_ph calls made
\* on the builder, the one of core_dump included, and a write goes past the
\* end of the arrays exactly when the count exceeds MAX_SEGMENTS; a builder
\* that core_dump finds with fewer than MAX_SEGMENTS headers is written with
\* at most MAX_SEGMENTS and without such a write.
C31_PhnumCountsCalls ==
    Building =>
        /\ host.cf.ehdr.e_phnum = Len(host.cf.phdr)
        /\ Len(host.cf.segments) = Len(host.cf.phdr)
        /\ host.cf.overrun <=> host.cf.ehdr.e_phnum > MAX_SEGMENTS
        /\ host.state = "dumped" =>
                /\ host.cf.ehdr.e_phnum = last.aux.before.ehdr.e_phnum + 1
                /\ host.cf.phdr[host.cf.ehdr.e_phnum].p_type = PT_NOTE
                        \/ host.cf.overrun

\* core_dump has been called on a builder that held ten program headers:
\* the PT_NOTE header is the eleventh, stored past the end of the arrays.
C31_Witness ==
    /\ host.state = "dumped" /\ last.op = "core_dump"
    /\ last.aux.before.ehdr.e_phnum = 10 /\ ~last.aux.before.overrun
    /\ host.cf.ehdr.e_phnum = 11 /\ host.cf.overrun /\ fate = "array overrun"


\* C32 as stated: cortexa_reset returns, or stops on its assertion, after
\* finitely many halt polls: the wait for the halt that ends each of its two
\* single steps ends even when the core never reports HALTED after the
\* step's resume.
C32_StepWaitEnds ==
    (host.state \in StepPollStates) ~> (host.state \notin StepPollStates)

\* C32, as far as the code goes: the wait of a step ends only with a poll
\* that reads DBGDSCR without a timeout and finds HALTED set; a poll whose
\* read times out or finds HALTED clear leaves the task in the wait with the
\* target as it was, whatever the number of polls before it, and a step that
\* did not end on a breakpoint stops reset on its assertion.
C32_StepWaitEndsOnHalt ==
    [][/\ host.state \in StepPollStates =>
            /\ host'.state \notin StepPollStates =>
                    /\ last'.op = "step_poll" /\ last'.arg = "none"
                    /\ dbg.dscr.HALTED
            /\ (last'.op = "step_poll" /\ (~dbg.dscr.HALTED \/ last'.arg = "EXCEPTION_TIMEOUT")) =>
                    /\ last'.ret = "RUNNING" /\ host' = host
                    /\ UNCHANGED <<priv, dbg, core, mem, fate>>
       /\ last'.op = "step_halted" =>
            /\ last'.ret \notin {"RUNNING", "ERROR"}
            /\ last'.ret = "BREAKPOINT" <=> fate' = "ok"
            /\ host'.state = IF host.state = "reset_read1" THEN "reset_step2" ELSE "halted"]_vars

\* The second step of a reset is in its wait: the poll has reported RUNNING
\* and the core has not halted.
C32_Witness ==
    /\ host.state = "reset_poll2" /\ last.op = "step_poll" /\ last.ret = "RUNNING"
    /\ ~dbg.dscr.HALTED /\ fate = "ok"


\* The last operation left the core attached or detached afresh: a detach, or
\* an attach that succeeded.
Reattached == last.op = "detach" \/ (last.op = "attach" /\ last.ret = TRUE)

\* C33 as stated: after cortexa_detach, and again after the next successful
\* cortexa_attach, every DBGBCR(i) and every DBGWCR(i) has EN clear, and after
\* the successful attach hw_breakpoint_mask and hw_watchpoint_mask are both 0.
C33_NoStaleBreakCondition ==
    (Reattached /\ fate = "ok") =>
        /\ \A i \in DOMAIN dbg.bcr : ~Enabled(dbg.bcr[i])
        /\ \A i \in DOMAIN dbg.wcr : ~Enabled(dbg.wcr[i])
        /\ last.op = "attach" =>
                priv.hw_breakpoint_mask = 0 /\ priv.hw_watchpoint_mask = 0

\* C33, as far as the code goes: a detach and a successful attach leave
\* every DBGBCR(i) zero, and the attach leaves hw_breakpoint_mask and bcr0
\* zero; neither writes a DBGWCR nor hw_watchpoint_mask, so a watchpoint
\* enabled before stays enabled and its slot stays taken.
C33_BreakpointsClearedWatchpointsKept ==
    [][((last'.op = "detach" \/ (last'.op = "attach" /\ last'.ret = TRUE)) /\ fate' = "ok") =>
        /\ \A i \in DOMAIN dbg'.bcr : dbg'.bcr[i] = 0
        /\ last'.op = "attach" => priv'.hw_breakpoint_mask = 0 /\ priv'.bcr0 = 0
        /\ dbg'.wcr = dbg.wcr /\ dbg'.wvr = dbg.wvr
        /\ priv'.hw_watchpoint_mask = priv.hw_watchpoint_mask]_vars

\* An attach has succeeded with a watchpoint of the session before still
\* enabled in DBGWCR(0) and its slot still marked in hw_watchpoint_mask.
C33_Witness ==
    /\ last.op = "attach" /\ last.ret = TRUE /\ fate = "ok"
    /\ Enabled(dbg.wcr[0]) /\ priv.hw_watchpoint_mask % 2 = 1
    /\ priv.hw_breakpoint_mask = 0


====
